---------------------------- MODULE Spec2Model ----------------------------
(***************************************************************************)
(* Model of the audio coordination and completion detection code of the    *)
(* Gaia Sky remote controller.                                             *)
(*                                                                         *)
(*   src/src/audio_coordinator.py       AudioStateManager                  *)
(*   src/src/speech_recognizer.py       listen_continuously (listener)     *)
(*   src/src/tts_engine.py              _speak_text (speaker)              *)
(*   src/src/gaia_completion_manager.py GaiaCompletionManager              *)
(*                                                                         *)
(* Times are in milliseconds.  Threads are interleaved one step at a time; *)
(* a step taken while holding state_lock is atomic with respect to every   *)
(* other access of the locked fields, so a `with self.state_lock:` block   *)
(* that does not sleep or wait is one action.                              *)
(***************************************************************************)
EXTENDS Integers, Sequences, FiniteSets, TLC

\* ------------------------------------------------------------------ bounds
\* Number of threads calling the coordinator.
NThreads == 2
\* The longest timeout argument tried, in multiples of safety_delay.
MaxTimeoutTicks == 3
\* elapsed[t] saturates at MaxElapsedTicks multiples of safety_delay.
MaxElapsedTicks == 3
\* validate_method_call calls per operation name on one connection
MaxCalls == 3
\* remote endpoints a connection can reach
NEndpoints == 2
\* callbacks registered with the coordinator
MaxCallbacks == 2

\* --------------------------------------------------------------- constants
\* time.sleep(0.1) in request_tts_permission; also the granularity of time.
safety_delay == 100

LISTENING == "listening"
SPEAKING == "speaking"
PROCESSING == "processing"
IDLE == "idle"
AudioState == {LISTENING, SPEAKING, PROCESSING, IDLE}

NoThread == 0
Threads == 1..NThreads
\* The timeout arguments tried: the shortest and the longest.
Timeouts == {safety_delay, MaxTimeoutTicks * safety_delay}
MaxElapsed == MaxElapsedTicks * safety_delay

Bool(b) == IF b THEN "True" ELSE "False"
Min(a, b) == IF a < b THEN a ELSE b
Max(a, b) == IF a > b THEN a ELSE b

VARIABLES
  current_state,              \* AudioStateManager.current_state
  lock_owner,                 \* holder of state_lock, NoThread when free
  tts_finished_event,         \* threading.Event flags; the third one,
  speech_paused_event,        \* processing_complete_event, is never waited
                              \* on and only shown in the debugging summary:
                              \* it is not modelled
  pc,                         \* per thread: position inside the coordinator
  op,                         \* per thread: the operation being (or last) called
  arg,                        \* per thread: the timeout argument of the call
  timer,                      \* per thread: remaining time of a sleep or wait
  elapsed,                    \* per thread: time since the call was made,
                              \* for the operations in TimedOps
  last,                       \* the return made by the latest step, if it
                              \* made one: operation, value, branch taken
  cpc,                        \* per thread: position in the caller's program
  paused_logged               \* listener: hasattr(self, '_paused_logged')

VARIABLES
  state_change_callbacks,     \* AudioStateManager.state_change_callbacks: what
                              \* each registered callback does when invoked
  delivered                   \* the _notify_state_change of the latest step,
                              \* if it invoked a callback: the pair it
                              \* passed, how many callbacks were registered
                              \* and invoked, how many raised, whether an
                              \* exception left it

coord_vars == <<current_state, lock_owner, tts_finished_event,
                speech_paused_event, delivered>>
thread_vars == <<pc, op, arg, timer, elapsed, last, cpc, paused_logged>>

VARIABLES
  cm_pc,                      \* position inside wait_for_completion
  cm_action,                  \* command_action
  cm_entity,                  \* entity
  cm_has_position,            \* validate_method_call(gs, 'getCameraPosition')
  cm_params,                  \* **params, known once the fallback reads them
  cm_polls,                   \* calls made on the remote handle so far
  cm_queries,                 \* validate_method_call calls made so far
  cm_closest,                 \* what the closest-object check met, if it ran
  cm_poll,                    \* how the latest getCameraPosition poll ended
  cm_time,                    \* time since wait_for_completion was called
  stable_count,               \* locals of _monitor_camera_position_completion
  previous_position,          \* (back at their initial values once it has
                              \* returned False)
  cm_recent,                  \* the last readings that were polled successfully
  cm_monitor,                 \* what the position strategy returned, and when
  cm_wait,                    \* wait_time slept by the fallback timer
  cm_ret                      \* what wait_for_completion returned or raised

cm_vars == <<cm_pc, cm_action, cm_entity, cm_has_position, cm_params, cm_polls,
            cm_queries, cm_closest, cm_poll,
             cm_time,
             stable_count, previous_position, cm_recent, cm_monitor, cm_wait,
             cm_ret>>

VARIABLES
  method_cache,               \* GaiaSkyMethodRegistry.method_cache
  gs,                         \* UniversalSpaceConnectionManager._gs: the
                              \* endpoint behind the handle, NoEndpoint if None
  is_connected,               \* UniversalSpaceConnectionManager._is_connected
  probes,                     \* per name: hasattr probes on this connection
  calls,                      \* per name: validate_method_call calls on it
  failed,                     \* names whose introspection has raised
  reg_last                    \* the latest return of validate_method_call

reg_vars == <<method_cache, gs, is_connected, probes, calls, failed, reg_last>>

VARIABLES
  vs_state,                   \* SequentialVoiceController.current_state
  is_running,                 \* SequentialVoiceController.is_running
  vs_pc,                      \* position of the thread running the loop
  vs_command,                 \* what listen_for_command returned
  vs_result,                  \* what process_and_execute_command returned
  vs_active,                  \* collaborator calls that have not returned
  vs_executed,                \* EXECUTING was entered in this iteration
  vs_stop,                    \* position of the thread calling stop()
  vs_outcome,                 \* how the latest command_executor call ended
  vs_cue,                     \* indicator_type of the latest speak_and_wait
  vs_cues                     \* speak_and_wait calls made by the give_feedback
                              \* that is running or ran last

vs_vars == <<vs_state, is_running, vs_pc, vs_command, vs_result, vs_active,
             vs_executed, vs_stop, vs_outcome, vs_cue, vs_cues>>

VARIABLES
  last_target,                \* SpaceNavigationController.last_target
  d_last                      \* the latest execute_command: the parsed command,
                              \* what became of it, the remote operations its
                              \* handler invoked, last_target before it

dp_vars == <<last_target, d_last>>

\* What the coordinator and its callers leave unchanged.
outside_coordinator ==
  <<cm_vars, reg_vars, vs_vars, dp_vars, state_change_callbacks>>

vars == <<coord_vars, thread_vars, cm_vars, reg_vars, vs_vars, dp_vars,
         state_change_callbacks>>

\* ------------------------------------------------- callers of the coordinator
\* The listener thread runs listen_continuously, the speaker thread runs
\* _speak_text; a "free" caller may call any operation at any time.
Listener == 1
Speaker == 2

\* self.audio_manager.request_listening_permission(timeout=2.0)
listener_timeout == 2000
\* self.audio_manager.request_tts_permission(timeout=3.0)
speaker_timeout == 3000
\* CHUNK_DURATION = 4.0 seconds of audio per record_audio_chunk
chunk_duration == 4000
\* time.sleep(0.1) after a pause, a refused check or a failed recording
listener_retry_delay == 100
\* time.sleep(0.2) at the end of an iteration
listener_loop_delay == 200
\* time.sleep(1) in the loop's exception handler
listener_error_delay == 1000

RequestOps == {"request_tts_permission", "request_listening_permission"}
\* The operations whose response time is measured.
TimedOps == RequestOps \cup {"signal_tts_finished", "force_idle"}
VoiceOps == {"request_tts_permission", "request_listening_permission",
             "signal_tts_started", "signal_tts_finished",
             "signal_speech_paused", "signal_processing_started",
             "signal_processing_finished", "is_listening_allowed"}
AllOps == VoiceOps \cup {"signal_speech_resumed", "force_idle",
                         "get_current_state", "is_tts_allowed",
                         "get_status_summary"}

\* The operation a caller at position c is about to call.
Calls(c) ==
  CASE c = "free" -> AllOps
    [] c \in {"L_top", "L_check2"} -> {"is_listening_allowed"}
    [] c = "L_pause" -> {"signal_speech_paused"}
    [] c = "L_request" -> {"request_listening_permission"}
    [] c = "L_proc_start" -> {"signal_processing_started"}
    [] c \in {"L_proc_fin", "L_proc_fin_exc", "L_err"} ->
         {"signal_processing_finished"}
    [] c = "S_idle" -> {"request_tts_permission"}
    [] c = "S_started" -> {"signal_tts_started"}
    [] c = "S_finished" -> {"signal_tts_finished"}
    [] OTHER -> {}

\* The timeout arguments a caller at position c passes to operation o.
Args(c, o) ==
  IF o \notin RequestOps THEN {0}
  ELSE IF c = "L_request" THEN {listener_timeout}
  ELSE IF c = "S_idle" THEN {speaker_timeout}
  ELSE Timeouts

\* Where the caller goes when the call it made at position c returns v.
ClientAfter(c, v) ==
  CASE c = "L_top" ->
         IF v = <<"False">>
         THEN (IF paused_logged THEN "L_request" ELSE "L_pause")
         ELSE "L_check2"
    [] c = "L_pause" -> "L_request"
    [] c = "L_request" -> "L_sleep"
    [] c = "L_check2" -> IF v = <<"False">> THEN "L_sleep" ELSE "L_record"
    [] c = "L_proc_start" -> "L_transcribe"
    [] c = "L_proc_fin" -> "L_sleep"
    [] c = "L_proc_fin_exc" -> "L_err"
    [] c = "L_err" -> "L_sleep"
    [] c = "S_idle" -> IF v = <<"False">> THEN "S_idle" ELSE "S_started"
    [] c = "S_started" -> "S_play"
    [] c = "S_finished" -> "S_idle"
    [] OTHER -> c

\* The sleep or recording time the caller starts when that call returns.
ClientTimer(c, v) ==
  CASE c = "L_request" -> listener_retry_delay
    [] c = "L_check2" ->
         IF v = <<"False">> THEN listener_retry_delay ELSE chunk_duration
    [] c = "L_proc_fin" -> listener_loop_delay
    [] c = "L_err" -> listener_error_delay
    [] OTHER -> 0

\* self._paused_logged after that call returned.
ClientPaused(c, v) ==
  CASE c = "L_top" -> IF v = <<"False">> THEN paused_logged ELSE FALSE
    [] c = "L_pause" -> TRUE
    [] OTHER -> paused_logged

\* ------------------------------------------------------ call and return
call_vars == <<pc, op, arg, elapsed>>

\* The step invoked no callback.
NoDelivery == [old |-> "none", new |-> "none", registered |-> 0,
               invoked |-> 0, raised |-> 0, propagated |-> FALSE]
\* The step writes nothing in the coordinator and notifies nobody.
Quiet ==
  /\ UNCHANGED <<current_state, lock_owner, tts_finished_event,
                 speech_paused_event>>
  /\ delivered' = NoDelivery

\* (variant: the operation does not wait for state_lock)
Entered_without_lock(t, o, a) ==
  \/ pc[t] = "ready" /\ o \in Calls(cpc[t]) /\ a \in Args(cpc[t], o)
  \/ pc[t] = "blocked" /\ op[t] = o /\ a = arg[t]

\* Thread t starts executing operation o with argument a: either it makes
\* the call now and finds state_lock free, or it was blocked on the lock.
Entered(t, o, a) ==
  /\ lock_owner = NoThread
  /\ \/ pc[t] = "ready" /\ o \in Calls(cpc[t]) /\ a \in Args(cpc[t], o)
     \/ pc[t] = "blocked" /\ op[t] = o /\ a = arg[t]

\* The latest step returned from no operation.
NoReturn == [op |-> "none", val |-> <<"None">>, branch |-> "none"]

\* Thread t returns v from operation o, having taken branch br.
Returned(t, o, v, br) ==
  /\ pc' = [pc EXCEPT ![t] = "ready"]
  /\ op' = [op EXCEPT ![t] = "none"]
  /\ arg' = [arg EXCEPT ![t] = 0]
  /\ elapsed' = [elapsed EXCEPT ![t] = 0]
  /\ last' = [op |-> o, val |-> v, branch |-> br]
  /\ cpc' = [cpc EXCEPT ![t] = ClientAfter(cpc[t], v)]
  /\ timer' = [timer EXCEPT ![t] = ClientTimer(cpc[t], v)]
  /\ paused_logged' = ClientPaused(cpc[t], v)
  /\ UNCHANGED outside_coordinator

\* Thread t stays inside operation o (argument a), at position p, with tm
\* left to sleep or wait.
Goto(t, o, a, p, tm) ==
  /\ pc' = [pc EXCEPT ![t] = p]
  /\ op' = [op EXCEPT ![t] = o]
  /\ arg' = [arg EXCEPT ![t] = a]
  /\ timer' = [timer EXCEPT ![t] = tm]
  /\ last' = NoReturn
  /\ UNCHANGED <<elapsed, cpc, paused_logged, outside_coordinator>>

\* `with self.state_lock:` when another thread holds the lock: the caller
\* blocks until the lock is released.
LockingOps == AllOps \ {"signal_speech_paused"}
Block(t) ==
  /\ pc[t] = "ready"
  /\ lock_owner # NoThread
  /\ \E o \in Calls(cpc[t]) \cap LockingOps : \E a \in Args(cpc[t], o) :
       Goto(t, o, a, "blocked", 0)
  /\ Quiet

\* --------------------------------------------------- AudioStateManager
\* return self.current_state in [AudioState.LISTENING, AudioState.IDLE]
listening_allowed(s) == s \in {LISTENING, IDLE}
\* (variant: speaking also allowed during a listen session)
tts_allowed_while_listening(s) == s \in {SPEAKING, IDLE, LISTENING}
\* return self.current_state in [AudioState.SPEAKING, AudioState.IDLE]
tts_allowed(s) == s \in {SPEAKING, IDLE}

\* The value request_tts_permission returns from branch br.
tts_permission_result(br) == "True"
\* (variant: a request that timed out is denied)
listening_permission_denied_on_timeout(br) ==
  IF br = "timeout" THEN "False" ELSE "True"
\* The value request_listening_permission returns from branch br.
listening_permission_result(br) == "True"
\* (variant: the listening branch sleeps for the timeout argument)
tts_sleep_for_timeout(a) == a
\* time.sleep(0.1) of the listening branch, whatever the timeout argument a.
tts_sleep_time(a) == safety_delay

Events == <<tts_finished_event, speech_paused_event>>

\* What a registered callback does when it is invoked.
CallbackKinds == {"returns", "raises"}
\* How many of the callbacks cbs raise.
RECURSIVE Raising(_)
Raising(cbs) ==
  IF cbs = <<>> THEN 0
  ELSE (IF Head(cbs) = "raises" THEN 1 ELSE 0) + Raising(Tail(cbs))
\* The callbacks of cbs invoked when the first exception ends the loop.
RECURSIVE UntilRaise(_)
UntilRaise(cbs) ==
  IF cbs = <<>> THEN 0
  ELSE IF Head(cbs) = "raises" THEN 1 ELSE 1 + UntilRaise(Tail(cbs))
\* (variant: callback(old_state, new_state) outside any try block)
notify_state_change_unguarded(cbs, old, new) ==
  [old |-> old, new |-> new, registered |-> Len(cbs),
   invoked |-> UntilRaise(cbs),
   raised |-> IF Raising(cbs) > 0 THEN 1 ELSE 0,
   propagated |-> Raising(cbs) > 0]
\* _notify_state_change(old, new) with the callbacks cbs: each callback is
\* invoked in its own try block, an exception it raises is logged.
notify_state_change(cbs, old, new) ==
  [old |-> old, new |-> new, registered |-> Len(cbs),
   invoked |-> Len(cbs), raised |-> Raising(cbs), propagated |-> FALSE]
\* (variant: the state the forced grant leaves after the timeout)
listening_timeout_state_kept(s) == s
\* self.current_state = AudioState.LISTENING of the timeout branch, the
\* state being s.
listening_timeout_state(s) == LISTENING

\* self._notify_state_change(old, new), called with state_lock held.
Notify(old, new) ==
  delivered' =
    IF state_change_callbacks = <<>> THEN NoDelivery
    ELSE notify_state_change(state_change_callbacks, old, new)

request_tts_permission(t) ==
  \E a \in Timeouts \cup {speaker_timeout} :
    /\ Entered(t, "request_tts_permission", a)
    /\ CASE current_state = SPEAKING ->
              /\ Returned(t, "request_tts_permission", <<tts_permission_result("speaking")>>, "speaking")
              /\ Quiet
         [] current_state = IDLE ->
              /\ current_state' = SPEAKING
              /\ Notify(current_state, SPEAKING)
              /\ Returned(t, "request_tts_permission", <<tts_permission_result("idle")>>, "idle")
              /\ UNCHANGED <<lock_owner, Events>>
         [] current_state = LISTENING ->
              /\ current_state' = SPEAKING
              /\ Notify(current_state, SPEAKING)
              /\ speech_paused_event' = TRUE
              /\ lock_owner' = t
              /\ Goto(t, "request_tts_permission", a, "tts_sleep", tts_sleep_time(a))
              /\ UNCHANGED tts_finished_event
         [] current_state = PROCESSING ->
              /\ current_state' = SPEAKING
              /\ Notify(current_state, SPEAKING)
              /\ Returned(t, "request_tts_permission", <<tts_permission_result("processing")>>, "processing")
              /\ UNCHANGED <<lock_owner, Events>>

\* The sleep of the listening branch is over: leave the with block, return.
request_tts_permission_wake(t) ==
  /\ pc[t] = "tts_sleep"
  /\ timer[t] = 0
  /\ lock_owner' = NoThread
  /\ Returned(t, "request_tts_permission", <<tts_permission_result("listening")>>, "listening")
  /\ UNCHANGED <<current_state, Events>>
  /\ delivered' = NoDelivery

request_listening_permission(t) ==
  \E a \in Timeouts \cup {listener_timeout} :
    /\ Entered(t, "request_listening_permission", a)
    /\ CASE current_state = LISTENING ->
              /\ Returned(t, "request_listening_permission", <<listening_permission_result("listening")>>, "listening")
              /\ Quiet
         [] current_state = IDLE ->
              /\ current_state' = LISTENING
              /\ Notify(current_state, LISTENING)
              /\ Returned(t, "request_listening_permission", <<listening_permission_result("idle")>>, "idle")
              /\ UNCHANGED <<lock_owner, Events>>
         [] current_state = SPEAKING ->
              \* self.tts_finished_event.wait(timeout), inside the with block
              /\ lock_owner' = t
              /\ Goto(t, "request_listening_permission", a, "listen_wait", a)
              /\ UNCHANGED <<current_state, Events>>
              /\ delivered' = NoDelivery
         [] current_state = PROCESSING ->
              /\ current_state' = LISTENING
              /\ Notify(current_state, LISTENING)
              /\ Returned(t, "request_listening_permission", <<listening_permission_result("processing")>>, "processing")
              /\ UNCHANGED <<lock_owner, Events>>

\* tts_finished_event.wait returned True: the event is set.
request_listening_permission_finished(t) ==
  /\ pc[t] = "listen_wait"
  /\ tts_finished_event
  /\ current_state' = LISTENING
  /\ Notify(current_state, LISTENING)
  /\ lock_owner' = NoThread
  /\ Returned(t, "request_listening_permission", <<listening_permission_result("finished")>>, "finished")
  /\ UNCHANGED <<Events>>

\* tts_finished_event.wait returned False: the timeout ran out.
request_listening_permission_timeout(t) ==
  /\ pc[t] = "listen_wait"
  /\ ~tts_finished_event
  /\ timer[t] = 0
  /\ current_state' = listening_timeout_state(current_state)
  /\ Notify(current_state, listening_timeout_state(current_state))
  /\ lock_owner' = NoThread
  /\ Returned(t, "request_listening_permission", <<listening_permission_result("timeout")>>, "timeout")
  /\ UNCHANGED <<Events>>

signal_tts_started(t) ==
  /\ Entered(t, "signal_tts_started", 0)
  /\ current_state' = SPEAKING
  /\ IF current_state # SPEAKING THEN Notify(current_state, SPEAKING)
     ELSE delivered' = NoDelivery
  /\ tts_finished_event' = FALSE
  /\ Returned(t, "signal_tts_started", <<"None">>, "none")
  /\ UNCHANGED <<lock_owner, speech_paused_event>>

signal_tts_finished(t) ==
  /\ Entered(t, "signal_tts_finished", 0)
  /\ current_state' = IF current_state = SPEAKING THEN IDLE ELSE current_state
  /\ IF current_state = SPEAKING THEN Notify(current_state, IDLE)
     ELSE delivered' = NoDelivery
  /\ tts_finished_event' = TRUE
  /\ Returned(t, "signal_tts_finished", <<"None">>, "none")
  /\ UNCHANGED <<lock_owner, speech_paused_event>>

\* register_state_callback(callback): appended without taking the lock, by
\* a caller that is not inside the coordinator.
register_state_callback ==
  /\ Len(state_change_callbacks) < MaxCallbacks
  /\ \E kind \in CallbackKinds :
       state_change_callbacks' = Append(state_change_callbacks, kind)
  /\ last' = NoReturn
  /\ Quiet
  /\ UNCHANGED <<call_vars, timer, cpc, paused_logged, cm_vars,
                 reg_vars, vs_vars, dp_vars>>

\* Takes no lock: only sets the event.
signal_speech_paused(t) ==
  /\ pc[t] = "ready"
  /\ "signal_speech_paused" \in Calls(cpc[t])
  /\ speech_paused_event' = TRUE
  /\ Returned(t, "signal_speech_paused", <<"None">>, "none")
  /\ UNCHANGED <<current_state, lock_owner, tts_finished_event>>
  /\ delivered' = NoDelivery

signal_speech_resumed(t) ==
  /\ Entered(t, "signal_speech_resumed", 0)
  /\ current_state' = LISTENING
  /\ IF current_state # LISTENING THEN Notify(current_state, LISTENING)
     ELSE delivered' = NoDelivery
  /\ Goto(t, "signal_speech_resumed", 0, "resumed_clear", 0)
  /\ UNCHANGED <<lock_owner, Events>>

\* self.speech_paused_event.clear(), after the with block
signal_speech_resumed_clear(t) ==
  /\ pc[t] = "resumed_clear"
  /\ speech_paused_event' = FALSE
  /\ Returned(t, "signal_speech_resumed", <<"None">>, "none")
  /\ UNCHANGED <<current_state, lock_owner, tts_finished_event>>
  /\ delivered' = NoDelivery

\* The processing_complete_event.clear() that follows the with block is not
\* modelled (see the variables).
signal_processing_started(t) ==
  /\ Entered(t, "signal_processing_started", 0)
  /\ current_state' = PROCESSING
  /\ Notify(current_state, PROCESSING)
  /\ Returned(t, "signal_processing_started", <<"None">>, "none")
  /\ UNCHANGED <<lock_owner, Events>>

\* Likewise without its processing_complete_event.set().
signal_processing_finished(t) ==
  /\ Entered(t, "signal_processing_finished", 0)
  /\ current_state' = IDLE
  /\ Notify(current_state, IDLE)
  /\ Returned(t, "signal_processing_finished", <<"None">>, "none")
  /\ UNCHANGED <<lock_owner, Events>>

force_idle(t) ==
  /\ Entered(t, "force_idle", 0)
  /\ current_state' = IDLE
  /\ Notify(current_state, IDLE)
  /\ Goto(t, "force_idle", 0, "force_set_tts", 0)
  /\ UNCHANGED <<lock_owner, Events>>

\* self.tts_finished_event.set(), after the with block
force_idle_set_tts(t) ==
  /\ pc[t] = "force_set_tts"
  /\ tts_finished_event' = TRUE
  /\ Goto(t, "force_idle", 0, "force_set_speech", 0)
  /\ UNCHANGED <<current_state, lock_owner, speech_paused_event>>
  /\ delivered' = NoDelivery

\* self.speech_paused_event.set(); then the call returns
force_idle_set_speech(t) ==
  /\ pc[t] = "force_set_speech"
  /\ speech_paused_event' = TRUE
  /\ Returned(t, "force_idle", <<"None">>, "none")
  /\ UNCHANGED <<current_state, lock_owner, tts_finished_event>>
  /\ delivered' = NoDelivery

get_current_state(t) ==
  /\ Entered(t, "get_current_state", 0)
  /\ Returned(t, "get_current_state", <<current_state>>, "none")
  /\ Quiet

is_listening_allowed(t) ==
  /\ Entered(t, "is_listening_allowed", 0)
  /\ Returned(t, "is_listening_allowed", <<Bool(listening_allowed(current_state))>>, "none")
  /\ Quiet

is_tts_allowed(t) ==
  /\ Entered(t, "is_tts_allowed", 0)
  /\ Returned(t, "is_tts_allowed", <<Bool(tts_allowed(current_state))>>, "none")
  /\ Quiet

\* The whole dict is built inside one with block (the lock is reentrant);
\* its entries current_state, listening_allowed and tts_allowed are modelled.
get_status_summary(t) ==
  /\ Entered(t, "get_status_summary", 0)
  /\ Returned(t, "get_status_summary", <<current_state,
                   Bool(listening_allowed(current_state)),
                   Bool(tts_allowed(current_state))>>, "none")
  /\ Quiet

\* ------------------------------------------- listener and speaker programs

\* A time.sleep of the listener loop is over: `continue` / next iteration.
listener_sleep_done(t) ==
  /\ pc[t] = "ready" /\ cpc[t] = "L_sleep" /\ timer[t] = 0
  /\ cpc' = [cpc EXCEPT ![t] = "L_top"]
  /\ last' = NoReturn
  /\ Quiet
  /\ UNCHANGED <<call_vars, timer, paused_logged, outside_coordinator>>

\* record_audio_chunk: chunk_duration of audio was read, or the read failed
\* and None is returned (`if not audio_data: time.sleep(0.1); continue`).
record_audio_chunk(t) ==
  /\ pc[t] = "ready" /\ cpc[t] = "L_record"
  /\ \/ /\ timer[t] = 0
        /\ cpc' = [cpc EXCEPT ![t] = "L_proc_start"]
        /\ UNCHANGED timer
     \/ /\ cpc' = [cpc EXCEPT ![t] = "L_sleep"]
        /\ timer' = [timer EXCEPT ![t] = listener_retry_delay]
  /\ last' = NoReturn
  /\ Quiet
  /\ UNCHANGED <<call_vars, paused_logged, outside_coordinator>>

\* transcribe_audio and process_command ran: normally, or an exception left
\* the try block (finally, then the loop's except handler).
transcribe_audio(t) ==
  /\ pc[t] = "ready" /\ cpc[t] = "L_transcribe"
  /\ \E c \in {"L_proc_fin", "L_proc_fin_exc"} : cpc' = [cpc EXCEPT ![t] = c]
  /\ last' = NoReturn
  /\ Quiet
  /\ UNCHANGED <<call_vars, timer, paused_logged, outside_coordinator>>

\* How the audio work of a speak call ends: tts_to_file and afplay ran, or
\* one of them raised.
SpeakOutcomes == {"played", "raise"}
\* (variant: an exception leaves _speak_text without the finally clause)
after_audio_unguarded(o) == IF o = "raise" THEN "S_idle" ELSE "S_finished"
\* Where _speak_text goes when its audio work ended with o: the except
\* clause logs, the finally clause calls signal_tts_finished.
after_audio(o) == "S_finished"

\* self.tts.tts_to_file and afplay ended or failed.
speak_audio_done(t) ==
  /\ pc[t] = "ready" /\ cpc[t] = "S_play"
  /\ \E o \in SpeakOutcomes : cpc' = [cpc EXCEPT ![t] = after_audio(o)]
  /\ last' = NoReturn
  /\ Quiet
  /\ UNCHANGED <<call_vars, timer, paused_logged, outside_coordinator>>

\* The listener is reading audio from the microphone.
Recording(t) == cpc[t] = "L_record"
\* The speaker is synthesising or playing audio.
Playing(t) == cpc[t] = "S_play"

\* ------------------------------------------------------------------- time
\* A thread that has no step to take before time passes.
CanWait(t) ==
  \/ pc[t] = "ready"
       /\ cpc[t] \in {"free", "idle", "S_idle", "L_transcribe", "S_play"}
  \/ pc[t] = "ready" /\ cpc[t] \in {"L_sleep", "L_record"} /\ timer[t] > 0
  \/ pc[t] = "blocked" /\ lock_owner # NoThread
  \/ pc[t] = "tts_sleep" /\ timer[t] > 0
  \/ pc[t] = "listen_wait" /\ timer[t] > 0 /\ ~tts_finished_event

\* safety_delay of time passes: every thread is asleep, waiting, blocked or
\* outside the coordinator.
Tick ==
  /\ \A t \in Threads : CanWait(t)
  /\ \E t \in Threads : timer[t] > 0
  /\ timer' = [t \in Threads |-> Max(timer[t] - safety_delay, 0)]
  /\ elapsed' = [t \in Threads |->
                   IF pc[t] = "ready" \/ op[t] \notin TimedOps THEN elapsed[t]
                   ELSE Min(elapsed[t] + safety_delay, MaxElapsed)]
  /\ last' = NoReturn
  /\ Quiet
  /\ UNCHANGED <<pc, op, arg, cpc, paused_logged,
                 outside_coordinator>>

\* ------------------------------------------------ GaiaCompletionManager
\* self.max_navigation_wait = 30.0
max_navigation_wait == 30000
\* self.quick_verification_delay = 0.2
quick_verification_delay == 200
\* min(self.max_navigation_wait, 20.0): the cap of 20 seconds
navigation_wait_cap == 20000
\* check_interval = 0.2
check_interval == 200
\* stability_checks = 3
stability_checks == 3
\* stability_threshold = 1000.0
stability_threshold == 1000
\* params.get('duration', 5.0)
default_duration == 5000
\* wait_time = max(wait_time, duration + 1.0)
duration_buffer == 1000
\* wait_time = min(wait_time, 1.0)
instant_cap == 1000
\* _wait_camera_completion: time.sleep(0.5), time.sleep(0.3), time.sleep(1.0)
camera_settle_delay == 500
camera_sample_delay == 300
camera_extra_delay == 1000
\* movement < 1000 in _wait_camera_completion
camera_threshold == 1000

\* (variant: the far bucket waits less than the medium one)
fallback_timing_far_short(category) ==
  CASE category = "nearby" -> 2000
    [] category = "medium" -> 4000
    [] category = "far" -> 3000
    [] category = "very_far" -> 8000
    [] OTHER -> 5000

\* self.fallback_timing
fallback_timing(category) ==
  CASE category = "nearby" -> 2000
    [] category = "medium" -> 4000
    [] category = "far" -> 6000
    [] category = "very_far" -> 8000
    [] OTHER -> 5000

\* self.command_categories.get(command_action, CommandType.FAST)
command_type(action) ==
  CASE action \in {"go_to", "land_on", "track", "explore", "orbit"} -> "navigation"
    [] action \in {"tour", "cinematic_journey", "multi_step", "stream_tour"} ->
         "multi_step"
    [] action \in {"back_to_space", "free_camera", "stop_camera"} -> "camera"
    [] OTHER -> "fast"

\* entity.lower(), on the entities tried
Lower(entity) ==
  CASE entity = "Moon" -> "moon"
    [] entity = "MARS" -> "mars"
    [] entity = "Jupiter" -> "jupiter"
    [] OTHER -> entity

\* (variant: a target in no table counts as nearby)
estimate_unknown_as_nearby(entity) ==
  IF entity = "" THEN "default"
  ELSE IF Lower(entity) \in {"mars", "venus", "mercury"} THEN "medium"
  ELSE IF Lower(entity) \in {"jupiter", "saturn"} THEN "far"
  ELSE IF Lower(entity) \in {"uranus", "neptune", "pluto"} THEN "very_far"
  ELSE "nearby"

estimate_navigation_timing(entity) ==
  IF entity = "" THEN "default"
  ELSE IF Lower(entity) \in {"moon", "luna", "earth"} THEN "nearby"
  ELSE IF Lower(entity) \in {"mars", "venus", "mercury"} THEN "medium"
  ELSE IF Lower(entity) \in {"jupiter", "saturn"} THEN "far"
  ELSE IF Lower(entity) \in {"uranus", "neptune", "pluto"} THEN "very_far"
  ELSE "default"

Abs(x) == IF x < 0 THEN -x ELSE x
\* sum(abs(curr - prev) for curr, prev in zip(curr_pos, previous_position))
Movement(curr, prev) ==
  Abs(curr[1] - prev[1]) + Abs(curr[2] - prev[2]) + Abs(curr[3] - prev[3])

\* (variant: movement equal to the threshold counts as stable)
IsStableInclusive(movement) == movement <= stability_threshold
\* movement < stability_threshold
IsStable(movement) == movement < stability_threshold

\* (variant: the configured maximum alone, without the cap)
max_wait_uncapped == max_navigation_wait
\* max_wait_time = min(self.max_navigation_wait, 20.0)
max_wait_time == Min(max_navigation_wait, navigation_wait_cap)

\* Inputs tried.
Actions ==
  {"go_to", "land_on", "tour", "cinematic_journey", "multi_step", "stream_tour",
   "free_camera", "take_screenshot", "dance"}
Entities == {"", "Moon", "MARS", "Jupiter", "neptune", "Zorgon-7"}
Positions == {<<0, 0, 0>>, <<-100, -100, -100>>, <<500, 300, 200>>}
\* What a call of getCameraPosition does: returns a position, returns a value
\* without three elements, or raises (also: an element float() rejects).
PollOutcomes ==
  [kind : {"position"}, pos : Positions]
    \cup {[kind |-> "short", pos |-> <<>>], [kind |-> "raise", pos |-> <<>>]}
Flags == {"absent", "True", "False"}
\* params['duration']: absent, a number of milliseconds, or not a number
Durations ==
  {[kind |-> "absent", ms |-> 0], [kind |-> "number", ms |-> 2000],
   [kind |-> "number", ms |-> 9000], [kind |-> "text", ms |-> 0]}
Unread == [smooth |-> "unread", instant |-> "unread",
           duration |-> [kind |-> "unread", ms |-> 0]]

NotMonitored == [result |-> "none", at |-> 0]
coordinator_idle ==
  UNCHANGED <<coord_vars, thread_vars, reg_vars, vs_vars, dp_vars,
              state_change_callbacks>>

\* The last four successful readings, newest last.
Remember(recent, p) ==
  IF Len(recent) < 4 THEN Append(recent, p) ELSE Append(Tail(recent), p)

\* `return True` of _fallback_navigation_timing
fallback_result == "True"
\* (variant: the quick verification reports failure)
quick_verification_failed == "False"
\* `return True` of _quick_verification
quick_verification_result == "True"

\* (variant: a multi-step action gets the quick verification delay)
multi_step_quick_delay == quick_verification_delay
\* `return True` at once for CommandType.MULTI_STEP: no sleep
multi_step_delay == 0
multi_step_result == "True"

\* validate_method_call(gaia_interface, 'getCameraPosition') is the first
\* statement of _monitor_camera_position_completion and of
\* _wait_camera_completion; the other categories make no query.
registry_queries(type) == IF type \in {"navigation", "camera"} THEN 1 ELSE 0

\* wait_for_completion is called: the category is looked up and, for a
\* navigation action, the position strategy looks for getCameraPosition.
wait_for_completion ==
  /\ cm_pc = "idle"
  /\ \E action \in Actions, entity \in Entities, has \in BOOLEAN :
       /\ cm_action' = action
       /\ cm_entity' = entity
       /\ cm_has_position' = has
       /\ CASE command_type(action) = "navigation" ->
                 /\ cm_pc' = IF has THEN "monitor" ELSE "fallback"
                 /\ cm_monitor' = IF has THEN NotMonitored
                                  ELSE [result |-> "False", at |-> 0]
                 /\ UNCHANGED <<cm_time, cm_ret>>
            [] command_type(action) = "multi_step" ->
                 /\ cm_pc' = "done"
                 /\ cm_ret' = multi_step_result
                 /\ cm_time' = cm_time + multi_step_delay
                 /\ UNCHANGED cm_monitor
            [] command_type(action) = "camera" ->
                 /\ cm_pc' = "camera"
                 /\ UNCHANGED <<cm_time, cm_ret, cm_monitor>>
            [] OTHER ->
                 /\ cm_pc' = "done"
                 /\ cm_time' = quick_verification_delay
                 /\ cm_ret' = quick_verification_result
                 /\ UNCHANGED cm_monitor
       /\ cm_queries' = cm_queries + registry_queries(command_type(action))
  /\ UNCHANGED <<cm_params, cm_polls, cm_closest, cm_poll, stable_count,
                 previous_position, cm_recent, cm_wait>>
  /\ coordinator_idle

\* What the secondary check meets: the registry does not offer
\* getClosestObjectToCamera, or the call returns the target, another object
\* or nothing, or raises.
ClosestOutcomes == {"absent", "same", "different", "nothing", "raise"}
\* (variant: _verify_target_reached without its try block)
verify_target_reached_unguarded(entity, closest) ==
  IF closest = "raise" THEN "raise" ELSE "True"
\* _verify_target_reached(gaia_interface, entity) when the check meets
\* closest: every path returns True.
verify_target_reached(entity, closest) == "True"

\* (variant: the except clause of the loop starts the count again)
count_reset_on_error(count) == 0
\* except Exception: time.sleep(check_interval); continue.  stable_count is
\* not assigned on this path.
count_after_error(count) == count

\* One iteration of the while loop of _monitor_camera_position_completion.
monitor_camera_position_completion ==
  /\ cm_pc = "monitor"
  /\ cm_time < max_wait_time
  /\ \E o \in PollOutcomes :
       CASE o.kind = "raise" ->
              \* except Exception: time.sleep(check_interval); continue
              /\ cm_time' = cm_time + check_interval
              /\ cm_polls' = cm_polls + 1
              /\ cm_poll' = "raise"
              /\ stable_count' = count_after_error(stable_count)
              /\ UNCHANGED <<cm_pc, previous_position, cm_recent,
                             cm_monitor, cm_ret, cm_queries, cm_closest>>
         [] o.kind = "short" ->
              \* "Invalid camera position format": return False
              /\ cm_pc' = "fallback"
              /\ cm_monitor' = [result |-> "False", at |-> cm_time]
              /\ stable_count' = 0
              /\ previous_position' = <<>>
              /\ cm_recent' = <<>>
              /\ cm_polls' = cm_polls + 1
              /\ cm_poll' = "short"
              /\ UNCHANGED <<cm_time, cm_ret, cm_queries, cm_closest>>
         [] OTHER ->
              LET moved == IF previous_position = <<>> THEN 0
                           ELSE Movement(o.pos, previous_position)
                  count == IF previous_position = <<>> THEN stable_count
                           ELSE IF IsStable(moved) THEN stable_count + 1
                           ELSE 0
                  complete == /\ previous_position # <<>>
                              /\ IsStable(moved)
                              /\ count >= stability_checks
              IN /\ stable_count' = count
                 /\ cm_recent' = Remember(cm_recent, o.pos)
                 /\ cm_poll' = IF cm_poll = "raise" THEN "after_raise"
                               ELSE "position"
                 /\ \E closest \in ClosestOutcomes :
                    LET verified ==
                          IF cm_entity = "" THEN "skipped"
                          ELSE verify_target_reached(cm_entity, closest)
                    IN
                    IF complete /\ verified = "raise"
                    THEN \* an exception inside the loop's try block:
                         \* time.sleep(check_interval); continue
                         /\ cm_time' = cm_time + check_interval
                         /\ cm_queries' = cm_queries + 1
                         /\ cm_polls' = cm_polls + 2
                         /\ cm_closest' = closest
                         /\ UNCHANGED <<cm_pc, cm_monitor, cm_ret,
                                        previous_position>>
                    ELSE IF complete
                    THEN /\ cm_pc' = "done"
                         /\ cm_monitor' = [result |-> "True", at |-> cm_time]
                         /\ cm_ret' = "True"
                         /\ UNCHANGED <<cm_time, previous_position>>
                         \* `if entity and self._verify_target_reached(...)`:
                         \* one registry query, and a call of
                         \* getClosestObjectToCamera if the query allows it;
                         \* what it returns changes nothing.
                         /\ IF cm_entity = ""
                            THEN /\ closest = "absent"
                                 /\ cm_polls' = cm_polls + 1
                                 /\ UNCHANGED <<cm_queries, cm_closest>>
                            ELSE /\ cm_queries' = cm_queries + 1
                                 /\ cm_closest' = closest
                                 /\ cm_polls' = cm_polls + 1
                                      + (IF closest = "absent" THEN 0 ELSE 1)
                    ELSE /\ closest = "absent"
                         /\ previous_position' = o.pos
                         /\ cm_time' = cm_time + check_interval
                         /\ cm_polls' = cm_polls + 1
                         /\ UNCHANGED <<cm_pc, cm_monitor, cm_ret, cm_queries,
                                        cm_closest>>
  /\ UNCHANGED <<cm_action, cm_entity, cm_has_position, cm_params, cm_wait>>
  /\ coordinator_idle

\* The while condition fails: "Position monitoring timeout", return False.
monitor_camera_position_timeout ==
  /\ cm_pc = "monitor"
  /\ ~(cm_time < max_wait_time)
  /\ cm_pc' = "fallback"
  /\ cm_monitor' = [result |-> "False", at |-> cm_time]
  /\ stable_count' = 0
  /\ previous_position' = <<>>
  /\ cm_recent' = <<>>
  /\ UNCHANGED <<cm_action, cm_entity, cm_has_position, cm_params, cm_polls,
                 cm_queries, cm_closest, cm_poll, cm_time, cm_wait, cm_ret>>
  /\ coordinator_idle

\* (variant: the instant flag is looked at before the smooth flag)
fallback_wait_time_instant_first(entity, smooth, duration, instant) ==
  LET bucket == fallback_timing(estimate_navigation_timing(entity))
  IN IF instant = "True"
     THEN [kind |-> "ok", ms |-> Min(bucket, instant_cap)]
     ELSE IF smooth \in {"absent", "True"}
     THEN CASE duration.kind = "absent" ->
                 [kind |-> "ok", ms |-> Max(bucket, default_duration + duration_buffer)]
            [] duration.kind = "number" ->
                 [kind |-> "ok", ms |-> Max(bucket, duration.ms + duration_buffer)]
            [] OTHER -> [kind |-> "raise", ms |-> 0]
     ELSE [kind |-> "ok", ms |-> bucket]

\* The wait time _fallback_navigation_timing computes for an entity and the
\* entries of params it reads; "raise" when duration + 1.0 is a TypeError.
fallback_wait_time(entity, smooth, duration, instant) ==
  LET bucket == fallback_timing(estimate_navigation_timing(entity))
  IN IF smooth \in {"absent", "True"}
     THEN CASE duration.kind = "absent" ->
                 [kind |-> "ok", ms |-> Max(bucket, default_duration + duration_buffer)]
            [] duration.kind = "number" ->
                 [kind |-> "ok", ms |-> Max(bucket, duration.ms + duration_buffer)]
            [] OTHER -> [kind |-> "raise", ms |-> 0]
     ELSE IF instant = "True"
     THEN [kind |-> "ok", ms |-> Min(bucket, instant_cap)]
     ELSE [kind |-> "ok", ms |-> bucket]

\* _fallback_navigation_timing: params is read here for the first time, so
\* what the caller passed is chosen here.  An exception leaves it for the
\* handler of wait_for_completion, which runs _quick_verification.
fallback_navigation_timing ==
  /\ cm_pc = "fallback"
  /\ \E smooth \in Flags, duration \in Durations, instant \in Flags :
       LET wait == fallback_wait_time(cm_entity, smooth, duration, instant)
       IN /\ cm_params' = [smooth |-> smooth, duration |-> duration,
                           instant |-> instant]
          /\ IF wait.kind = "ok"
             THEN /\ cm_wait' = wait.ms
                  /\ cm_time' = cm_time + wait.ms
                  /\ cm_ret' = fallback_result
             ELSE /\ cm_wait' = 0
                  /\ cm_time' = cm_time + quick_verification_delay
                  /\ cm_ret' = quick_verification_result
  /\ cm_pc' = "done"
  /\ UNCHANGED <<cm_action, cm_entity, cm_has_position, cm_polls, cm_queries,
                 cm_closest, cm_poll,
                 stable_count, previous_position, cm_recent, cm_monitor>>
  /\ coordinator_idle

\* (variant: the camera wait answers an exception with the quick delay)
camera_fallback_quick == quick_verification_delay
\* time.sleep(1.0) at the end of _wait_camera_completion, reached without a
\* position getter and from the except clause
camera_fallback_delay == 1000

\* _wait_camera_completion: two readings camera_sample_delay apart; any
\* exception falls through to the flat wait at the end.
wait_camera_completion ==
  /\ cm_pc = "camera"
  /\ IF ~cm_has_position
     THEN cm_time' = cm_time + camera_fallback_delay /\ UNCHANGED cm_polls
     ELSE \E o1 \in PollOutcomes, o2 \in PollOutcomes :
            /\ cm_polls' = cm_polls + (IF o1.kind = "raise" THEN 1 ELSE 2)
            /\ cm_time' = cm_time +
              (CASE o1.kind = "raise" -> camera_settle_delay + camera_fallback_delay
                 [] o2.kind = "raise" ->
                      camera_settle_delay + camera_sample_delay
                        + camera_fallback_delay
                 [] o1.kind = "position" /\ o2.kind = "position"
                      /\ Movement(o1.pos, o2.pos) < camera_threshold ->
                      camera_settle_delay + camera_sample_delay
                 [] OTHER ->
                      camera_settle_delay + camera_sample_delay + camera_extra_delay)
  /\ cm_pc' = "done"
  /\ cm_ret' = "True"
  /\ UNCHANGED <<cm_action, cm_entity, cm_has_position, cm_params, cm_queries,
                 cm_closest, cm_poll,
                 stable_count, previous_position, cm_recent, cm_monitor, cm_wait>>
  /\ coordinator_idle

InitCompletion ==
  /\ cm_pc = "idle"
  /\ cm_action = "none"
  /\ cm_entity = ""
  /\ cm_has_position = FALSE
  /\ cm_params = Unread
  /\ cm_polls = 0
  /\ cm_queries = 0
  /\ cm_closest = "none"
  /\ cm_poll = "none"
  /\ cm_time = 0
  /\ stable_count = 0
  /\ previous_position = <<>>
  /\ cm_recent = <<>>
  /\ cm_monitor = NotMonitored
  /\ cm_wait = 0
  /\ cm_ret = "none"

NextCompletion ==
  \/ wait_for_completion
  \/ monitor_camera_position_completion
  \/ monitor_camera_position_timeout
  \/ fallback_navigation_timing
  \/ wait_camera_completion

\* ------------------------------------------------ GaiaSkyMethodRegistry
MethodNames == {"getCameraPosition", "goToObjectSmooth"}
\* The names the command handlers and the completion manager validate.
RegistryNames ==
  MethodNames \cup {"landOnObject", "landAtObjectLocation", "setCameraFocus",
                    "setCameraTrackingObject", "setSimulationTime",
                    "getClosestObjectToCamera"}
NoEndpoint == 0
Endpoints == 1..NEndpoints

\* hasattr(gs_interface, method_name) when it does not raise: what the
\* endpoint behind the handle offers (None offers nothing).  Every endpoint
\* offers setCameraFocus: _test_connection fails the connection otherwise.
Capability(e, n) ==
  CASE e = NoEndpoint -> FALSE
    [] e = 1 -> TRUE
    [] OTHER -> n \in {"goToObjectSmooth", "setCameraFocus"}

\* (variant: only a cached True counts as cached)
cache_hit_if_true(cache, n) == cache[n] = "True"
\* if method_name in self.method_cache
cache_hit(cache, n) == cache[n] # "absent"

\* (variant: a failed introspection is not cached)
failure_not_cached == "absent"
\* self.method_cache[method_name] = False, in the except branch
failure_cached == "False"

NoCall == [name |-> "none", val |-> "none", probed |-> FALSE,
           raised |-> FALSE, first |-> FALSE]

registry_idle ==
  UNCHANGED <<coord_vars, thread_vars, cm_vars, vs_vars, dp_vars,
              state_change_callbacks>>

\* validate_method_call(gs_interface, n), with the handle the connection
\* manager currently holds: the callers obtain it from
\* get_gaia_sky_interface and return early when it is None.
validate_method_call ==
  \E n \in MethodNames :
    /\ is_connected
    /\ calls[n] < MaxCalls
    /\ calls' = [calls EXCEPT ![n] = @ + 1]
    /\ IF cache_hit(method_cache, n)
       THEN /\ reg_last' = [name |-> n, val |-> method_cache[n],
                            probed |-> FALSE, raised |-> FALSE,
                            first |-> calls[n] = 0]
            /\ UNCHANGED <<method_cache, probes, failed>>
       ELSE /\ probes' = [probes EXCEPT ![n] = @ + 1]
            /\ \/ \* exists = hasattr(gs_interface, method_name)
                  /\ method_cache' =
                       [method_cache EXCEPT ![n] = Bool(Capability(gs, n))]
                  /\ reg_last' = [name |-> n, val |-> Bool(Capability(gs, n)),
                                  probed |-> TRUE, raised |-> FALSE,
                                  first |-> calls[n] = 0]
                  /\ UNCHANGED failed
               \/ \* except Exception: cache False, return False
                  /\ method_cache' = [method_cache EXCEPT ![n] = failure_cached]
                  /\ reg_last' = [name |-> n, val |-> "False",
                                  probed |-> TRUE, raised |-> TRUE,
                                  first |-> calls[n] = 0]
                  /\ failed' = failed \cup {n}
    /\ UNCHANGED <<gs, is_connected>>
    /\ registry_idle

\* connect() when not connected, succeeding: a new gateway and handle.  The
\* registry is not touched.  (A failed attempt leaves the handle None.)
connect ==
  /\ ~is_connected
  /\ \E e \in Endpoints : gs' = e
  /\ is_connected' = TRUE
  /\ probes' = [n \in MethodNames |-> 0]
  /\ calls' = [n \in MethodNames |-> 0]
  /\ reg_last' = NoCall
  /\ UNCHANGED <<method_cache, failed>>
  /\ registry_idle

\* disconnect(): the handle is dropped.  The registry is not touched.
disconnect ==
  /\ is_connected
  /\ gs' = NoEndpoint
  /\ is_connected' = FALSE
  /\ reg_last' = NoCall
  /\ UNCHANGED <<method_cache, probes, calls, failed>>
  /\ registry_idle

InitRegistry ==
  /\ method_cache = [n \in RegistryNames |-> "absent"]
  /\ gs = NoEndpoint
  /\ is_connected = FALSE
  /\ probes = [n \in MethodNames |-> 0]
  /\ calls = [n \in MethodNames |-> 0]
  /\ failed = {}
  /\ reg_last = NoCall

NextRegistry ==
  \/ validate_method_call
  \/ connect
  \/ disconnect

\* ------------------------------------------- SequentialVoiceController
VS_IDLE == "vs_idle"
VS_SPEAKING == "vs_speaking"
VS_LISTENING == "vs_listening"
VS_PROCESSING == "vs_processing"
VS_EXECUTING == "vs_executing"
VS_FEEDBACK == "vs_feedback"
VoiceState == {VS_IDLE, VS_SPEAKING, VS_LISTENING, VS_PROCESSING,
               VS_EXECUTING, VS_FEEDBACK}

\* What speech_recognizer.listen_once does: returns a command, returns
\* None or an empty text, or raises.
ListenOutcomes == {"text", "none", "raise"}
\* How a result text starts: with the error, navigation or screenshot
\* marker, or with none of them.
Markers == {"error", "plane", "camera", "none"}
\* The words give_feedback looks for, in any case.
Words == {"connection", "navigation", "failed", "successfully"}
NoResult == [kind |-> "none", marker |-> "none", words |-> {}]
NotText == [kind |-> "not_text", marker |-> "none", words |-> {}]
Text(marker, words) == [kind |-> "text", marker |-> marker, words |-> words]
\* What command_executor does: returns a result text, returns something
\* that is not a text, or raises an exception with a message (words).
ExecuteOutcomes ==
  [kind : {"text"}, marker : Markers, words : SUBSET Words]
    \cup [kind : {"raise"}, marker : {"none"}, words : SUBSET Words]
    \cup {NotText}

\* (variant: the exception message is returned as it is)
failure_result_unmarked(message) == Text("none", message)
\* return f"❌ Command failed: {str(e)}"
failure_result(message) == Text("error", message \cup {"failed"})

\* (variant: the success keyword is looked for first)
feedback_cue_success_first(result) ==
  IF result.marker = "plane" \/ "successfully" \in result.words
  THEN "complete"
  ELSE IF result.marker = "error" THEN "error"
  ELSE IF result.marker = "camera" THEN "screenshot_taken"
  ELSE "done"
\* The indicator_type give_feedback chooses for a result text.
feedback_cue(result) ==
  IF result.marker = "error"
  THEN (IF "connection" \in result.words THEN "connection_failed"
        ELSE IF {"navigation", "failed"} \subseteq result.words
        THEN "navigation_failed"
        ELSE "error")
  ELSE IF result.marker = "plane" \/ "successfully" \in result.words
  THEN "complete"
  ELSE IF result.marker = "camera" THEN "screenshot_taken"
  ELSE "done"

\* (variant: an empty command is processed too)
no_command_ignored(command) == FALSE
\* if not command: continue
no_command(command) == command = "none"

\* (variant: a collaborator call returns while its work goes on)
call_left_running(active, c) == active
\* The blocking call of collaborator c has returned.
call_returned(active, c) == active \ {c}

\* (variant: speak_and_wait leaves the state as it is)
state_kept_after_speaking == VS_SPEAKING
\* self._change_state(VoiceState.IDLE) at the end of speak_and_wait
state_after_speaking == VS_IDLE

NotStopped == [pc |-> "none", during |-> "none"]

session_idle ==
  UNCHANGED <<coord_vars, thread_vars, cm_vars, reg_vars, dp_vars,
              state_change_callbacks>>

\* speak_and_wait up to its blocking tts call; the loop continues at p once
\* the call has returned.
speak_and_wait_call(p, indicator_type) ==
  /\ vs_state' = VS_SPEAKING
  /\ vs_cue' = indicator_type
  /\ vs_active' = vs_active \cup {"tts"}
  /\ vs_pc' = p

\* run_voice_control_loop is called: is_running = True, then the greeting.
run_voice_control_loop ==
  /\ vs_pc = "start"
  /\ is_running' = TRUE
  /\ speak_and_wait_call("greeting", "ready")
  /\ UNCHANGED <<vs_command, vs_result, vs_executed, vs_stop, vs_outcome,
                 vs_cues>>
  /\ session_idle

\* The tts call of speak_and_wait returns: state IDLE, back to the caller.
speak_and_wait ==
  /\ vs_pc \in {"greeting", "feedback_speaking", "error_speaking"}
  /\ vs_active' = call_returned(vs_active, "tts")
  /\ vs_state' = state_after_speaking
  /\ vs_pc' = CASE vs_pc = "greeting" -> "loop_top"
                 [] vs_pc = "feedback_speaking" -> "feedback_end"
                 [] OTHER -> "error_pause"
  /\ UNCHANGED <<is_running, vs_command, vs_result, vs_executed, vs_stop>>
  /\ UNCHANGED <<vs_outcome, vs_cue, vs_cues>>
  /\ session_idle

\* The tts call of speak_and_wait raises.  speak_and_wait has no handler,
\* so the state stays as it is and the exception reaches the caller: the
\* except clause of the loop when give_feedback was speaking; the caller of
\* run_voice_control_loop when the greeting (before the try) or the error
\* cue (inside the except clause) was speaking.  (CoquiTTSEngine catches
\* Exception inside its synchronous calls; the controller speaks through
\* whatever tts_engine it was constructed with.)
speak_and_wait_raise ==
  /\ vs_pc \in {"greeting", "feedback_speaking", "error_speaking"}
  /\ vs_active' = call_returned(vs_active, "tts")
  /\ vs_pc' = IF vs_pc = "feedback_speaking" THEN "loop_error" ELSE "raised"
  /\ UNCHANGED <<vs_state, is_running, vs_command, vs_result, vs_executed,
                 vs_stop>>
  /\ UNCHANGED <<vs_outcome, vs_cue, vs_cues>>
  /\ session_idle

\* while self.is_running
loop_condition ==
  /\ vs_pc = "loop_top"
  /\ vs_pc' = IF is_running THEN "listen" ELSE "ended"
  /\ UNCHANGED <<vs_state, is_running, vs_command, vs_result, vs_active,
                 vs_executed, vs_stop>>
  /\ UNCHANGED <<vs_outcome, vs_cue, vs_cues>>
  /\ session_idle

\* listen_for_command up to its blocking listen_once call.
listen_for_command ==
  /\ vs_pc = "listen"
  /\ vs_state' = VS_LISTENING
  /\ vs_active' = vs_active \cup {"recognizer"}
  /\ vs_executed' = FALSE
  /\ vs_pc' = "listening"
  /\ UNCHANGED <<is_running, vs_command, vs_result, vs_stop>>
  /\ UNCHANGED <<vs_outcome, vs_cue, vs_cues>>
  /\ session_idle

\* listen_once returns or raises: state IDLE; `if not command: continue`.
listen_for_command_return ==
  /\ vs_pc = "listening"
  /\ \E o \in ListenOutcomes :
       LET command == IF o = "text" THEN "text" ELSE "none"
       IN /\ vs_command' = command
          /\ vs_pc' = IF no_command(command) THEN "loop_top" ELSE "process"
  /\ vs_active' = call_returned(vs_active, "recognizer")
  /\ vs_state' = VS_IDLE
  /\ UNCHANGED <<is_running, vs_result, vs_executed, vs_stop>>
  /\ UNCHANGED <<vs_outcome, vs_cue, vs_cues>>
  /\ session_idle

\* process_and_execute_command: self._change_state(VoiceState.PROCESSING)
process_and_execute_command ==
  /\ vs_pc = "process"
  /\ vs_state' = VS_PROCESSING
  /\ vs_pc' = "execute"
  /\ UNCHANGED <<is_running, vs_command, vs_result, vs_active, vs_executed,
                 vs_stop>>
  /\ UNCHANGED <<vs_outcome, vs_cue, vs_cues>>
  /\ session_idle

\* self._change_state(VoiceState.EXECUTING), then the blocking executor call
process_and_execute_command_call ==
  /\ vs_pc = "execute"
  /\ vs_state' = VS_EXECUTING
  /\ vs_active' = vs_active \cup {"executor"}
  /\ vs_executed' = TRUE
  /\ vs_pc' = "executing"
  /\ UNCHANGED <<is_running, vs_command, vs_result, vs_stop>>
  /\ UNCHANGED <<vs_outcome, vs_cue, vs_cues>>
  /\ session_idle

\* The executor returns or raises (then the result is an error text): IDLE.
process_and_execute_command_return ==
  /\ vs_pc = "executing"
  /\ \E o \in ExecuteOutcomes :
       /\ vs_result' = IF o.kind = "raise" THEN failure_result(o.words) ELSE o
       /\ vs_outcome' = IF o.kind = "raise" THEN "raise" ELSE "return"
  /\ vs_active' = call_returned(vs_active, "executor")
  /\ vs_state' = VS_IDLE
  /\ vs_pc' = "feedback"
  /\ UNCHANGED <<is_running, vs_command, vs_executed, vs_stop, vs_cue,
                 vs_cues>>
  /\ session_idle

\* give_feedback: self._change_state(VoiceState.FEEDBACK); result[:50] and
\* result.startswith raise on a result that is not a text, which leaves
\* give_feedback for the except clause of the loop.
give_feedback ==
  /\ vs_pc = "feedback"
  /\ vs_state' = VS_FEEDBACK
  /\ vs_pc' = IF vs_result.kind = "not_text" THEN "loop_error"
             ELSE "feedback_speak"
  /\ vs_cues' = 0
  /\ UNCHANGED <<is_running, vs_command, vs_result, vs_active, vs_executed,
                 vs_stop, vs_outcome, vs_cue>>
  /\ session_idle

\* give_feedback: self.speak_and_wait("", indicator_type=...)
give_feedback_speak ==
  /\ vs_pc = "feedback_speak"
  /\ speak_and_wait_call("feedback_speaking", feedback_cue(vs_result))
  /\ vs_cues' = vs_cues + 1
  /\ UNCHANGED <<is_running, vs_command, vs_result, vs_executed, vs_stop,
                 vs_outcome>>
  /\ session_idle

\* give_feedback: the final self._change_state(VoiceState.IDLE)
give_feedback_return ==
  /\ vs_pc = "feedback_end"
  /\ vs_state' = VS_IDLE
  /\ vs_pc' = "pause"
  /\ UNCHANGED <<is_running, vs_command, vs_result, vs_active, vs_executed,
                 vs_stop>>
  /\ UNCHANGED <<vs_outcome, vs_cue, vs_cues>>
  /\ session_idle

\* except Exception: self.speak_and_wait("", indicator_type="error")
loop_error ==
  /\ vs_pc = "loop_error"
  /\ speak_and_wait_call("error_speaking", "error")
  /\ UNCHANGED <<is_running, vs_command, vs_result, vs_executed, vs_stop,
                 vs_outcome, vs_cues>>
  /\ session_idle

\* time.sleep(0.5) at the end of an iteration, time.sleep(1) after an error
loop_pause ==
  /\ vs_pc \in {"pause", "error_pause"}
  /\ vs_pc' = "loop_top"
  /\ UNCHANGED <<vs_state, is_running, vs_command, vs_result, vs_active,
                 vs_executed, vs_stop>>
  /\ UNCHANGED <<vs_outcome, vs_cue, vs_cues>>
  /\ session_idle

\* stop(), called by another thread at any moment, also before
\* run_voice_control_loop has executed a statement: is_running = False
stop ==
  /\ vs_stop.pc = "none"
  /\ is_running' = FALSE
  /\ vs_stop' = [pc |-> "flag", during |-> vs_pc]
  /\ UNCHANGED <<vs_state, vs_pc, vs_command, vs_result, vs_active,
                 vs_executed>>
  /\ UNCHANGED <<vs_outcome, vs_cue, vs_cues>>
  /\ session_idle

\* stop(): self._change_state(VoiceState.IDLE)
stop_change_state ==
  /\ vs_stop.pc = "flag"
  /\ vs_state' = VS_IDLE
  /\ vs_stop' = [vs_stop EXCEPT !.pc = "done"]
  /\ UNCHANGED <<is_running, vs_pc, vs_command, vs_result, vs_active,
                 vs_executed>>
  /\ UNCHANGED <<vs_outcome, vs_cue, vs_cues>>
  /\ session_idle

InitSession ==
  /\ vs_state = VS_IDLE
  /\ is_running = FALSE
  /\ vs_pc = "start"
  /\ vs_command = "none"
  /\ vs_result = NoResult
  /\ vs_outcome = "none"
  /\ vs_cue = "none"
  /\ vs_cues = 0
  /\ vs_active = {}
  /\ vs_executed = FALSE
  /\ vs_stop = NotStopped

NextSession ==
  \/ run_voice_control_loop
  \/ speak_and_wait
  \/ speak_and_wait_raise
  \/ loop_condition
  \/ listen_for_command
  \/ listen_for_command_return
  \/ process_and_execute_command
  \/ process_and_execute_command_call
  \/ process_and_execute_command_return
  \/ give_feedback
  \/ give_feedback_speak
  \/ give_feedback_return
  \/ loop_error
  \/ loop_pause
  \/ stop
  \/ stop_change_state

\* --------------------------------------------- SpaceNavigationController
\* self.last_target = None
NoTarget == "None"
NoCommand == [action |-> "none", entity |-> "", outcome |-> "none",
              connected |-> FALSE, calls |-> <<>>, before |-> NoTarget]

\* Inputs tried: what the parser made of the user's words.
DispatchActions == {"go_to", "land_on", "track", "explore", "set_time", "dance"}
DispatchEntities == {"", "Mars", "Zorgon-7"}
\* params of land_on: no coordinates, two numbers, or a latitude that is not
\* a number
Coordinates == {"absent", "numbers", "text"}
CallOutcomes == {"ok", "raise"}

\* _validate_entity: navigation_actions, and the entities tried that are in
\* CELESTIAL_OBJECTS
navigation_actions == {"go_to", "land_on", "track", "explore", "orbit"}
KnownEntities == {"Mars"}

\* One invocation of a remote operation by a handler: its name, whether the
\* handler had validate_method_call answer True for that name before it, and
\* whether the invocation raised.
RemoteCall(name, checked, raised) ==
  [op |-> name, checked |-> checked, raised |-> raised]

\* validate_method_call(gs, n) without an introspection failure: the answer,
\* and the cache it leaves.
Validated(cache, e, n) ==
  IF cache_hit(cache, n) THEN cache[n] = "True" ELSE Capability(e, n)
CacheAfter(cache, e, n) ==
  IF cache_hit(cache, n) THEN cache
  ELSE [cache EXCEPT ![n] = Bool(Capability(e, n))]

\* The registry after completion_manager.wait_for_completion(action, gs,
\* entity): one query of getCameraPosition for a navigation or camera action
\* and, when the position strategy saw the camera settle (verified), one of
\* getClosestObjectToCamera.  wait_for_completion does not raise.
CacheAfterCompletion(cache, e, action, entity, verified) ==
  IF registry_queries(command_type(action)) = 0 THEN cache
  ELSE LET c1 == CacheAfter(cache, e, "getCameraPosition")
       IN IF /\ command_type(action) = "navigation"
             /\ Validated(cache, e, "getCameraPosition")
             /\ entity # "" /\ verified
          THEN CacheAfter(c1, e, "getClosestObjectToCamera")
          ELSE c1

\* (variant: an exception inside a handler reaches the dispatcher)
handler_failure_propagates == "raise"
\* except Exception as e: return f"❌ ... failed: {str(e)}"
handler_failure == "error"

\* What a handler leaves: the registry cache, the remote operations it
\* invoked, the kind of result string, last_target.
Handled(cache, invoked, outcome, target) ==
  [cache |-> cache, calls |-> invoked, outcome |-> outcome, target |-> target]

\* _go_to past the entity and connection checks.  No operation is validated;
\* a failed goToObjectSmooth or goToObjectInstant falls back to goToObject.
go_to(cache, e, target, entity, smooth, o1, o2, verified) ==
  LET first == IF smooth THEN "goToObjectSmooth" ELSE "goToObjectInstant"
      after == CacheAfterCompletion(cache, e, "go_to", entity, verified)
  IN IF o1 = "ok"
     THEN Handled(after, <<RemoteCall(first, FALSE, FALSE)>>, "success", entity)
     ELSE IF o2 = "ok"
     THEN Handled(after, <<RemoteCall(first, FALSE, TRUE),
                           RemoteCall("goToObject", FALSE, FALSE)>>,
                  "success", entity)
     ELSE \* "❌ All navigation methods failed for {entity}"
          Handled(cache, <<RemoteCall(first, FALSE, TRUE),
                           RemoteCall("goToObject", FALSE, TRUE)>>,
                  "error", target)

\* _land_on past the entity and connection checks.
land_on(cache, e, target, entity, coordinates, o1, verified) ==
  LET name == IF coordinates = "absent" THEN "landOnObject"
              ELSE "landAtObjectLocation"
      c1 == CacheAfter(cache, e, name)
  IN IF ~Validated(cache, e, name)
     THEN Handled(c1, <<>>, "error", target)
     ELSE IF o1 = "raise"
     THEN Handled(c1, <<RemoteCall(name, TRUE, TRUE)>>, handler_failure, target)
     ELSE IF coordinates = "text"
     THEN \* f"{latitude:.2f}" raises
          Handled(c1, <<RemoteCall(name, TRUE, FALSE)>>, handler_failure, target)
     ELSE Handled(CacheAfterCompletion(c1, e, "land_on", entity, verified),
                  <<RemoteCall(name, TRUE, FALSE)>>, "success", entity)

\* _track past the entity and connection checks.
track(cache, e, target, entity, o1, o2, verified) ==
  LET c1 == CacheAfter(cache, e, "setCameraFocus")
      focus == RemoteCall("setCameraFocus", TRUE, o1 = "raise")
      \* hasattr(gs, 'setCameraTrackingObject') and validate_method_call(...)
      tracking == /\ Capability(e, "setCameraTrackingObject")
                  /\ Validated(c1, e, "setCameraTrackingObject")
      c2 == IF Capability(e, "setCameraTrackingObject")
            THEN CacheAfter(c1, e, "setCameraTrackingObject") ELSE c1
  IN IF ~Validated(cache, e, "setCameraFocus")
     THEN Handled(c1, <<>>, "error", target)
     ELSE IF o1 = "raise"
     THEN Handled(c1, <<focus>>, handler_failure, target)
     ELSE IF tracking /\ o2 = "raise"
     THEN Handled(c2, <<focus, RemoteCall("setCameraTrackingObject", TRUE, TRUE)>>,
                  handler_failure, target)
     ELSE Handled(CacheAfterCompletion(c2, e, "track", entity, verified),
                  IF tracking
                  THEN <<focus, RemoteCall("setCameraTrackingObject", TRUE, FALSE)>>
                  ELSE <<focus>>,
                  "success", entity)

\* _explore past the entity and connection checks.
explore(cache, e, target, entity, o1, o2, verified) ==
  LET smooth == Validated(cache, e, "goToObjectSmooth")
      c1 == CacheAfter(cache, e, "goToObjectSmooth")
      c2 == IF smooth
            THEN CacheAfterCompletion(c1, e, "explore", entity, verified) ELSE c1
      focus == Validated(c2, e, "setCameraFocus")
      c3 == CacheAfter(c2, e, "setCameraFocus")
      went == IF smooth THEN <<RemoteCall("goToObjectSmooth", TRUE, FALSE)>>
              ELSE <<>>
  IN IF smooth /\ o1 = "raise"
     THEN Handled(c1, <<RemoteCall("goToObjectSmooth", TRUE, TRUE)>>,
                  handler_failure, target)
     ELSE IF focus /\ o2 = "raise"
     THEN Handled(c3, Append(went, RemoteCall("setCameraFocus", TRUE, TRUE)),
                  handler_failure, target)
     ELSE Handled(c3,
                  IF focus
                  THEN Append(went, RemoteCall("setCameraFocus", TRUE, FALSE))
                  ELSE went,
                  "success", entity)

\* _set_time past the connection check.
set_time(cache, e, target, o1) ==
  LET c1 == CacheAfter(cache, e, "setSimulationTime")
  IN IF ~Validated(cache, e, "setSimulationTime")
     THEN Handled(c1, <<>>, "error", target)
     ELSE IF o1 = "raise"
     THEN Handled(c1, <<RemoteCall("setSimulationTime", TRUE, TRUE)>>,
                  handler_failure, target)
     ELSE Handled(c1, <<RemoteCall("setSimulationTime", TRUE, FALSE)>>,
                  "success", target)

\* self.action_map[command.action](command.entity, command.parameters or {})
\* on the handle e that get_gaia_sky_interface gave the handler.
Handler(action, cache, e, target, entity, smooth, coordinates, o1, o2, verified) ==
  IF action # "set_time" /\ entity = ""
  THEN \* if not entity: return "❌ Please specify ..."
       Handled(cache, <<>>, "error", target)
  ELSE IF e = NoEndpoint
  THEN \* if not gs: return "❌ No connection to Gaia Sky"
       Handled(cache, <<>>, "error", target)
  ELSE CASE action = "go_to" ->
              go_to(cache, e, target, entity, smooth, o1, o2, verified)
         [] action = "land_on" ->
              land_on(cache, e, target, entity, coordinates, o1, verified)
         [] action = "track" -> track(cache, e, target, entity, o1, o2, verified)
         [] action = "explore" ->
              explore(cache, e, target, entity, o1, o2, verified)
         [] OTHER -> set_time(cache, e, target, o1)

\* (variant: only the handlers set last_target)
last_target_left_to_handler(action, entity, target) == target
\* if command.action in ['go_to', 'land_on', 'explore'] and command.entity:
\*     self.last_target = command.entity
last_target_update(action, entity, target) ==
  IF action \in {"go_to", "land_on", "explore"} /\ entity # "" THEN entity
  ELSE target

\* should_execute_command, given whether get_current_state had a connection
should_execute_command(action, entity, state_connected, target) ==
  \/ ~state_connected
  \/ /\ ~(action \in navigation_actions /\ entity # ""
            /\ entity \notin KnownEntities)
     /\ ~(action = "go_to" /\ entity # "" /\ entity = target)

dispatcher_idle ==
  UNCHANGED <<coord_vars, thread_vars, cm_vars, vs_vars, probes, calls, failed,
              reg_last, state_change_callbacks>>

\* get_gaia_sky_interface: the handle held, or a connection attempt that
\* reaches endpoint e or fails (NoEndpoint).
Handles == IF is_connected THEN {gs} ELSE Endpoints \cup {NoEndpoint}

\* execute_command(user_input) with a command the parser understood:
\* get_current_state, should_execute_command, the handler, last_target.
execute_command ==
  /\ dispatcher_idle
  /\ \E action \in DispatchActions, entity \in DispatchEntities,
        smooth \in BOOLEAN, coordinates \in Coordinates,
        o1 \in CallOutcomes, o2 \in CallOutcomes, verified \in BOOLEAN,
        e1 \in Handles :
       \* get_current_state: a handle, and the camera position if available
       LET c1 == IF e1 = NoEndpoint THEN method_cache
                 ELSE CacheAfter(method_cache, e1, "getCameraPosition")
       IN IF ~should_execute_command(action, entity, e1 # NoEndpoint, last_target)
          THEN \* "🧠 Smart Agent: ..."
               /\ method_cache' = c1
               /\ gs' = e1
               /\ is_connected' = (e1 # NoEndpoint)
               /\ d_last' = [action |-> action, entity |-> entity,
                             outcome |-> "skipped", connected |-> TRUE,
                             calls |-> <<>>, before |-> last_target]
               /\ UNCHANGED last_target
          ELSE IF action \notin {"go_to", "land_on", "track", "explore", "set_time"}
          THEN \* f"Unknown action: {command.action}"
               /\ method_cache' = c1
               /\ gs' = e1
               /\ is_connected' = (e1 # NoEndpoint)
               /\ d_last' = [action |-> action, entity |-> entity,
                             outcome |-> "unknown", connected |-> e1 # NoEndpoint,
                             calls |-> <<>>, before |-> last_target]
               /\ UNCHANGED last_target
          ELSE \E e2 \in (IF e1 # NoEndpoint THEN {e1}
                          ELSE Endpoints \cup {NoEndpoint}) :
                 LET h == Handler(action, c1, e2, last_target, entity, smooth,
                                  coordinates, o1, o2, verified)
                     \* the entity check comes before get_gaia_sky_interface
                     e3 == IF action # "set_time" /\ entity = "" THEN e1 ELSE e2
                 IN /\ method_cache' = h.cache
                    /\ gs' = e3
                    /\ is_connected' = (e3 # NoEndpoint)
                    /\ last_target' =
                         IF h.outcome = "raise" THEN h.target
                         ELSE last_target_update(action, entity, h.target)
                    /\ d_last' = [action |-> action, entity |-> entity,
                                  outcome |-> h.outcome,
                                  connected |-> e3 # NoEndpoint,
                                  calls |-> h.calls, before |-> last_target]

\* execute_command with words the parser makes nothing of:
\* "❌ LLM failed to parse command"
execute_command_unparsed ==
  /\ \E e1 \in Handles :
       /\ method_cache' = IF e1 = NoEndpoint THEN method_cache
                          ELSE CacheAfter(method_cache, e1, "getCameraPosition")
       /\ gs' = e1
       /\ is_connected' = (e1 # NoEndpoint)
  /\ d_last' = NoCommand
  /\ UNCHANGED last_target
  /\ dispatcher_idle

InitDispatcher ==
  /\ last_target = NoTarget
  /\ d_last = NoCommand

NextDispatcher ==
  \/ execute_command
  \/ execute_command_unparsed

\* ------------------------------------------------- coordinator, free callers
InitCoordinator ==
  /\ current_state = IDLE
  /\ lock_owner = NoThread
  /\ tts_finished_event = FALSE
  /\ speech_paused_event = FALSE
  /\ state_change_callbacks = <<>>
  /\ delivered = NoDelivery
  /\ pc = [t \in Threads |-> "ready"]
  /\ op = [t \in Threads |-> "none"]
  /\ arg = [t \in Threads |-> 0]
  /\ timer = [t \in Threads |-> 0]
  /\ elapsed = [t \in Threads |-> 0]
  /\ last = NoReturn
  /\ paused_logged = FALSE

Init ==
  /\ InitCoordinator
  /\ cpc = [t \in Threads |-> "free"]
  /\ InitCompletion
  /\ InitRegistry
  /\ InitSession
  /\ InitDispatcher

Next ==
  \/ Tick
  \/ \E t \in Threads :
       \/ Block(t)
       \/ request_tts_permission(t)
       \/ request_tts_permission_wake(t)
       \/ request_listening_permission(t)
       \/ request_listening_permission_finished(t)
       \/ request_listening_permission_timeout(t)
       \/ signal_tts_started(t)
       \/ signal_tts_finished(t)
       \/ signal_speech_paused(t)
       \/ signal_speech_resumed(t)
       \/ signal_speech_resumed_clear(t)
       \/ signal_processing_started(t)
       \/ signal_processing_finished(t)
       \/ force_idle(t)
       \/ force_idle_set_tts(t)
       \/ force_idle_set_speech(t)
       \/ get_current_state(t)
       \/ is_listening_allowed(t)
       \/ is_tts_allowed(t)
       \/ get_status_summary(t)

Spec == Init /\ [][Next]_vars

\* --------------------------------- coordinator, one listener and one speaker
InitVoice ==
  /\ InitCoordinator
  /\ cpc = [t \in Threads |->
              IF t = Listener THEN "L_top"
              ELSE IF t = Speaker THEN "S_idle" ELSE "idle"]
  /\ InitCompletion
  /\ InitRegistry
  /\ InitSession
  /\ InitDispatcher

\* The steps of thread t in the listener and speaker programs.
VoiceSteps(t) ==
  \/ Block(t)
  \/ request_tts_permission(t)
  \/ request_tts_permission_wake(t)
  \/ request_listening_permission(t)
  \/ request_listening_permission_finished(t)
  \/ request_listening_permission_timeout(t)
  \/ signal_tts_started(t)
  \/ signal_tts_finished(t)
  \/ signal_speech_paused(t)
  \/ signal_processing_started(t)
  \/ signal_processing_finished(t)
  \/ is_listening_allowed(t)
  \/ listener_sleep_done(t)
  \/ record_audio_chunk(t)
  \/ transcribe_audio(t)
  \/ speak_audio_done(t)

NextVoice ==
  \/ Tick
  \/ \E t \in Threads : VoiceSteps(t)

SpecVoice == InitVoice /\ [][NextVoice]_vars

\* Every thread that can take a step eventually takes one, and time passes
\* when every thread is waiting: the audio work of a speak call ends, a
\* timed wait runs out, a released lock is taken.
SpecVoiceFair ==
  InitVoice /\ [][NextVoice]_vars
    /\ WF_vars(Tick) /\ \A t \in Threads : WF_vars(VoiceSteps(t))

\* ------------------------------------------- one call of wait_for_completion
InitWaiting ==
  /\ InitCoordinator
  /\ cpc = [t \in Threads |-> "idle"]
  /\ InitCompletion
  /\ InitRegistry
  /\ InitSession
  /\ InitDispatcher

SpecCompletion == InitWaiting /\ [][NextCompletion]_vars

\* ------------------------------- the method registry over reconnections
SpecRegistry == InitWaiting /\ [][NextRegistry]_vars

\* ------------------------------------------ one run of the voice session
SpecSession == InitWaiting /\ [][NextSession]_vars

\* The statements of run_voice_control_loop and of the methods it calls.
LoopSteps ==
  \/ run_voice_control_loop
  \/ speak_and_wait
  \/ speak_and_wait_raise
  \/ loop_condition
  \/ listen_for_command
  \/ listen_for_command_return
  \/ process_and_execute_command
  \/ process_and_execute_command_call
  \/ process_and_execute_command_return
  \/ give_feedback
  \/ give_feedback_speak
  \/ give_feedback_return
  \/ loop_error
  \/ loop_pause

\* The session when the thread of the loop keeps running, every blocking
\* collaborator call comes back, and a stop() that was begun is completed.
SpecSessionFair ==
  /\ InitWaiting
  /\ [][NextSession]_vars
  /\ WF_vars(LoopSteps)
  /\ WF_vars(stop_change_state)

SpecDispatcher == InitWaiting /\ [][NextDispatcher]_vars

\* Two free callers of the coordinator, and callbacks being registered.
FreeCallers == {Listener, Speaker}
InitCallbacks ==
  /\ InitCoordinator
  /\ cpc = [t \in Threads |-> IF t \in FreeCallers THEN "free" ELSE "idle"]
  /\ InitCompletion
  /\ InitRegistry
  /\ InitSession
  /\ InitDispatcher

NextCallbacks ==
  \/ register_state_callback
  \/ Next

SpecCallbacks == InitCallbacks /\ [][NextCallbacks]_vars

\* ===================================================== properties examined

\* ---- C1: the coordinator's observed state never reports a listen session
\* and a speak session together.  current_state is always exactly one
\* AudioState; whenever an observer returns, what it reports is the state at
\* that instant, and a report made in LISTENING allows listening only, a
\* report made in SPEAKING allows speaking only.
C1_MutualExclusion ==
  /\ current_state \in AudioState
  /\ last.op = "get_status_summary" =>
       /\ last.val[1] = current_state
       /\ last.val[1] = LISTENING =>
            last.val[2] = "True" /\ last.val[3] = "False"
       /\ last.val[1] = SPEAKING =>
            last.val[2] = "False" /\ last.val[3] = "True"
  /\ last.op = "is_listening_allowed" /\ last.val = <<"True">> =>
       current_state # SPEAKING
  /\ last.op = "is_tts_allowed" /\ last.val = <<"True">> =>
       current_state # LISTENING
  /\ last.op = "get_current_state" => last.val = <<current_state>>

\* A summary is returned in LISTENING while another thread is in the middle
\* of an operation.
C1_Witness ==
  /\ last.op = "get_status_summary"
  /\ last.val[1] = LISTENING
  /\ \E t \in Threads : pc[t] # "ready"

\* ---- C2: the listener never records an audio chunk while the speaker is
\* synthesising or playing audio.
C2_NeverRecordingWhilePlaying ==
  ~(Recording(Listener) /\ Playing(Speaker))

C4_BoundedResponse ==
  \A t \in Threads :
    pc[t] # "ready" /\ op[t] \in RequestOps =>
      elapsed[t] <= arg[t] + safety_delay

C6_SignalWakesWaiter ==
  \A a, b \in Threads :
    ~(/\ pc[a] = "listen_wait" /\ timer[a] = 0 /\ ~tts_finished_event
      /\ pc[b] = "blocked" /\ op[b] = "signal_tts_finished"
      /\ elapsed[b] > 0)

\* ---- C7: force_idle called while a thread waits in
\* request_listening_permission completes at once: no time passes with the
\* call pending, the state not IDLE and the waiter still waiting.
C7_ForceIdleAtOnce ==
  \A a, b \in Threads :
    ~(/\ pc[a] = "listen_wait" /\ current_state # IDLE
      /\ pc[b] = "blocked" /\ op[b] = "force_idle"
      /\ elapsed[b] > 0)

\* ---- C8: wait_for_completion never raises and always returns True.
C8_AlwaysReturnsTrue ==
  /\ cm_ret \in {"none", "True"}
  /\ cm_pc = "done" => cm_ret = "True"

\* It has returned after the position strategy failed and the fallback timer
\* raised on a duration that is not a number.
C8_Witness ==
  /\ cm_pc = "done"
  /\ cm_monitor.result = "False"
  /\ cm_params.duration.kind = "text"

\* The number of readings at the end of `recent` whose movement against the
\* reading before them is below the threshold.
TrailingBelowThreshold(recent) ==
  LET n == Len(recent)
      below(i) == Movement(recent[i], recent[i - 1]) < 1000
  IN IF n < 2 \/ ~below(n) THEN 0
     ELSE IF n < 3 \/ ~below(n - 1) THEN 1
     ELSE IF n < 4 \/ ~below(n - 2) THEN 2
     ELSE 3

ZeroPosition == <<0, 0, 0>>

\* ---- C9: the position strategy declares completion exactly at the third
\* consecutive reading whose movement is below 1000: while it polls, the
\* count is the number of trailing below-threshold readings (zero after a
\* reading at or above the threshold) and is below three; it has returned
\* True exactly when the last three readings were all below the threshold,
\* and then wait_for_completion returns True without the fallback timer.
\* Four readings (0,0,0) polled 200 ms apart complete after 600 ms.
C9_StabilityDetection ==
  /\ [](cm_pc = "monitor" =>
          /\ stable_count = TrailingBelowThreshold(cm_recent)
          /\ stable_count < 3
          /\ cm_monitor.result = "none")
  /\ [](cm_monitor.result = "True" =>
          /\ TrailingBelowThreshold(cm_recent) = 3
          /\ cm_pc = "done" /\ cm_ret = "True"
          /\ cm_wait = 0 /\ cm_time = cm_monitor.at)
  /\ [][/\ cm_pc = "monitor"
        /\ cm_recent = <<ZeroPosition, ZeroPosition, ZeroPosition>>
        /\ cm_recent' = <<ZeroPosition, ZeroPosition, ZeroPosition, ZeroPosition>>
        /\ cm_time = 3 * 200
        => cm_pc' = "done" /\ cm_ret' = "True" /\ cm_time' = 600 /\ cm_wait' = 0
     ]_vars
  /\ [][cm_pc = "monitor" /\ cm_pc' = "done" =>
          TrailingBelowThreshold(cm_recent) = 2
          /\ TrailingBelowThreshold(cm_recent') = 3]_vars

\* Four readings (0,0,0) have been polled and the call has returned True
\* 600 ms after it was made.
C9_Witness ==
  /\ cm_recent = <<ZeroPosition, ZeroPosition, ZeroPosition, ZeroPosition>>
  /\ cm_monitor = [result |-> "True", at |-> 600]
  /\ cm_pc = "done" /\ cm_ret = "True" /\ cm_time = 600

\* The position strategy ran into its time limit.
MonitorTimedOut ==
  cm_monitor.result = "False" /\ cm_monitor.at >= 20000

FallbackSlept ==
  /\ cm_pc = "done"
  /\ command_type(cm_action) = "navigation"
  /\ cm_monitor.result = "False"
  /\ cm_wait > 0

\* Position of a bucket in the order nearby, medium, far, very_far.
BucketRank(category) ==
  CASE category = "nearby" -> 1
    [] category = "medium" -> 2
    [] category = "far" -> 3
    [] category = "very_far" -> 4
    [] OTHER -> 0

\* ---- C11: with the caller's parameters fixed, the fallback wait of a
\* target is at most the fallback wait of every target in a later bucket of
\* the order nearby, medium, far, very_far.
C11_BucketMonotonicity ==
  FallbackSlept /\ BucketRank(estimate_navigation_timing(cm_entity)) >= 1 =>
    \A e \in Entities :
      BucketRank(estimate_navigation_timing(e)) >=
        BucketRank(estimate_navigation_timing(cm_entity)) =>
        LET w == fallback_wait_time(e, cm_params.smooth, cm_params.duration,
                                    cm_params.instant)
        IN w.kind = "ok" /\ w.ms >= cm_wait

\* The fallback has slept the plain bucket time of a medium target.
C11_Witness ==
  /\ FallbackSlept
  /\ cm_entity = "MARS"
  /\ cm_params.smooth = "False" /\ cm_params.instant = "False"
  /\ cm_wait = 4000

\* ---- C12: without a camera-position query a navigation wait polls no
\* position and goes straight to the fallback; an unknown or empty target
\* gets the default bucket, 5 s before the smooth/duration/instant
\* adjustment.
C12_NoQueryDefaultBucket ==
  cm_pc # "idle" /\ command_type(cm_action) = "navigation"
    /\ ~cm_has_position =>
      /\ cm_polls = 0
      /\ cm_pc \in {"fallback", "done"}
      /\ cm_monitor = [result |-> "False", at |-> 0]
      /\ cm_pc = "done" /\ cm_entity \in {"", "Zorgon-7"} =>
           \/ cm_params.smooth \in {"absent", "True"}
                /\ cm_params.duration.kind = "absent"
                /\ cm_wait = 6000 /\ cm_time = 6000
           \/ cm_params.smooth \in {"absent", "True"}
                /\ cm_params.duration.kind = "number"
                /\ cm_wait = (IF cm_params.duration.ms + 1000 > 5000
                              THEN cm_params.duration.ms + 1000 ELSE 5000)
                /\ cm_time = cm_wait
           \/ cm_params.smooth \in {"absent", "True"}
                /\ cm_params.duration.kind = "text"
                /\ cm_wait = 0 /\ cm_time = 200
           \/ cm_params.smooth = "False" /\ cm_params.instant = "True"
                /\ cm_wait = 1000 /\ cm_time = 1000
           \/ cm_params.smooth = "False" /\ cm_params.instant # "True"
                /\ cm_wait = 5000 /\ cm_time = 5000

\* go_to "Zorgon-7" without a position query and with smooth=False has
\* waited the 5 s of the default bucket.
C12_Witness ==
  /\ cm_pc = "done"
  /\ cm_action = "go_to" /\ cm_entity = "Zorgon-7" /\ ~cm_has_position
  /\ cm_params.smooth = "False" /\ cm_params.instant = "absent"
  /\ cm_polls = 0 /\ cm_wait = 5000

\* ---- C13: when the caller passes instant=True the fallback wait is at
\* most about 1 s, for every bucket.
C13_InstantCapped ==
  FallbackSlept /\ cm_params.instant = "True" => cm_wait <= 1000

\* ---- C14: on one connection the handle is probed at most once per
\* operation name; a call that finds the name cached returns the cached
\* value without probing, and a cached value is never replaced.
C14_CapabilityCaching ==
  /\ [](\A n \in MethodNames : probes[n] <= 1)
  /\ [](reg_last.name # "none" /\ ~reg_last.first =>
          ~reg_last.probed /\ reg_last.val = method_cache[reg_last.name])
  /\ [][\A n \in MethodNames :
          method_cache[n] # "absent" => method_cache'[n] = method_cache[n]
     ]_vars

\* The third call for a name on one connection has returned the cached
\* False, after a single probe.
C14_Witness ==
  /\ reg_last.name = "getCameraPosition"
  /\ reg_last.val = "False" /\ ~reg_last.probed
  /\ calls["getCameraPosition"] = 3
  /\ probes["getCameraPosition"] = 1

\* ---- C15: the first validate_method_call for a name on a connection
\* probes the handle of that connection and returns what its endpoint
\* offers.
C15_CacheInvalidatedByConnection ==
  reg_last.name # "none" /\ reg_last.first /\ is_connected
    /\ ~reg_last.raised =>
      /\ reg_last.probed
      /\ reg_last.val = Bool(Capability(gs, reg_last.name))

\* ---- C16: validate_method_call returns True or False, never raises; once
\* introspection has raised for a name, False is cached for it and every
\* later call returns False without probing.
C16_ValidateNeverThrows ==
  /\ reg_last.val \in {"none", "True", "False"}
  /\ \A n \in failed :
       /\ method_cache[n] = "False"
       /\ reg_last.name = n =>
            /\ reg_last.val = "False"
            /\ reg_last.probed => reg_last.raised

\* A name whose introspection raised earlier is answered False from the
\* cache, on a handle that offers the operation.
C16_Witness ==
  /\ reg_last.name \in failed
  /\ ~reg_last.probed /\ reg_last.val = "False"
  /\ Capability(gs, reg_last.name)

\* ---- C17: FEEDBACK is entered only after EXECUTING was entered in the
\* same iteration, and EXECUTING only after the listening of that iteration
\* returned a non-empty command.
C17_PhaseOrdering ==
  /\ [][vs_state' = VS_FEEDBACK /\ vs_state # VS_FEEDBACK =>
          vs_executed /\ vs_command = "text"]_vars
  /\ [][vs_state' = VS_EXECUTING /\ vs_state # VS_EXECUTING =>
          vs_command = "text" /\ ~vs_executed]_vars
  /\ [](vs_state \in {VS_PROCESSING, VS_EXECUTING} => vs_command = "text")
  /\ [](vs_state = VS_FEEDBACK => vs_executed /\ vs_command = "text")

\* The loop is in give_feedback after the executor failed.
C17_Witness ==
  /\ vs_state = VS_FEEDBACK
  /\ vs_result.marker = "error"
  /\ vs_executed

BlockingPositions ==
  {"greeting", "listening", "executing", "feedback_speaking", "error_speaking"}

\* ---- C18: at most one collaborator call is in progress at any instant,
\* it is the one the loop is waiting for, and no call is started while
\* another has not returned.
C18_OnePhaseAtATime ==
  /\ [](Cardinality(vs_active) <= 1)
  /\ []((vs_active # {}) <=> (vs_pc \in BlockingPositions))
  /\ []("tts" \in vs_active => vs_state \in {VS_SPEAKING, VS_IDLE})
  /\ [][vs_active' # vs_active /\ vs_active' # {} => vs_active = {}]_vars

\* The feedback cue is being spoken, and nothing else runs.
C18_Witness ==
  /\ vs_pc = "feedback_speaking"
  /\ vs_active = {"tts"}
  /\ vs_state = VS_SPEAKING

\* ---- C19: after stop() was called during a blocking phase, the loop
\* starts no further phase: it enters neither LISTENING nor PROCESSING nor
\* FEEDBACK.
C19_StopBetweenPhases ==
  [][vs_stop.during \in BlockingPositions =>
       ~(vs_state' # vs_state
         /\ vs_state' \in {VS_LISTENING, VS_PROCESSING, VS_FEEDBACK})]_vars

\* The cycle of the states, as pairs of consecutive states.
StatedCycle ==
  {<<VS_IDLE, VS_SPEAKING>>, <<VS_SPEAKING, VS_IDLE>>,
   <<VS_IDLE, VS_LISTENING>>, <<VS_LISTENING, VS_IDLE>>,
   <<VS_IDLE, VS_PROCESSING>>, <<VS_PROCESSING, VS_EXECUTING>>,
   <<VS_EXECUTING, VS_IDLE>>, <<VS_IDLE, VS_FEEDBACK>>,
   <<VS_FEEDBACK, VS_IDLE>>}

\* ---- C20 as stated: as long as stop() is not called, every change of the
\* state is a step of the cycle Idle, Speaking, Idle, Listening, Idle,
\* Processing, Executing, Idle, Feedback, Idle.
C20_StatedCycle ==
  [][vs_stop' = NotStopped /\ vs_state' # vs_state =>
       <<vs_state, vs_state'>> \in StatedCycle]_vars

\* ---- C20 amended: as long as stop() is not called, the state changes
\* Idle -> Speaking only for the initial prompt, then repeats
\* Idle -> Listening -> Idle until a command is heard, then
\* Idle -> Processing -> Executing -> Idle -> Feedback -> Speaking -> Idle:
\* the feedback cue (and the error cue after a failed feedback) is spoken in
\* state Speaking, entered from Feedback.
C20_ActualCycle ==
  [][vs_stop' = NotStopped /\ vs_state' # vs_state =>
       \/ <<vs_state, vs_state'>> \in
            (StatedCycle \ {<<VS_IDLE, VS_SPEAKING>>, <<VS_FEEDBACK, VS_IDLE>>})
              \cup {<<VS_FEEDBACK, VS_SPEAKING>>}
       \/ <<vs_state, vs_state'>> = <<VS_IDLE, VS_SPEAKING>> /\ vs_pc = "start"
  ]_vars

\* The feedback cue is being spoken in state Speaking, stop() not called.
C20_Witness ==
  /\ vs_stop = NotStopped
  /\ vs_pc = "feedback_speaking"
  /\ vs_state = VS_SPEAKING

\* ---- C21: no exception leaves run_voice_control_loop, whichever
\* collaborator call raises and in whichever phase.
C21_NoExceptionLeavesSession == vs_pc # "raised"

\* ---- C22: for a multi-step action (tour, cinematic_journey, multi_step,
\* stream_tour) wait_for_completion has returned True with no call on the
\* remote handle, no registry query and no time spent.
C22_MultiStepImmediate ==
  cm_pc = "done"
    /\ cm_action \in {"tour", "cinematic_journey", "multi_step", "stream_tour"} =>
    /\ cm_ret = "True"
    /\ cm_time = 0
    /\ cm_polls = 0
    /\ cm_queries = 0

\* wait_for_completion('tour', ...) has returned, on a handle that offers
\* getCameraPosition.
C22_Witness ==
  /\ cm_pc = "done"
  /\ cm_action = "tour"
  /\ cm_has_position
  /\ cm_ret = "True" /\ cm_time = 0 /\ cm_polls = 0 /\ cm_queries = 0

\* A handler ran for the latest command.
HandlerRan == d_last.outcome \in {"success", "error", "raise"}

\* ---- C23: every remote operation a command handler invoked had been
\* answered True by validate_method_call in that handler before.
C23_ValidatedBeforeCall ==
  HandlerRan => \A i \in DOMAIN d_last.calls : d_last.calls[i].checked

\* ---- C24: last_target changes only through go_to, land_on or explore with
\* a non-empty entity, and is then that entity; every other action leaves it
\* as it was.
C24_LastTargetOnlyTargetBearing ==
  d_last.action # "none" /\ last_target # d_last.before =>
    /\ d_last.action \in {"go_to", "land_on", "explore"}
    /\ d_last.entity # ""
    /\ last_target = d_last.entity

C26_GrantImpliesState ==
  /\ last.op = "request_listening_permission" /\ last.val = <<"True">> =>
       current_state = LISTENING
  /\ last.op = "request_tts_permission" /\ last.val = <<"True">> =>
       current_state = SPEAKING

\* A listening request that found SPEAKING was granted when its timeout ran
\* out.
C26_Witness ==
  /\ last.op = "request_listening_permission"
  /\ last.branch = "timeout"
  /\ last.val = <<"True">>
  /\ current_state = LISTENING

\* ---- C27: when signal_tts_finished returns the state is IDLE, whatever
\* state it was called in, and tts_finished_event is set.
C27_FinishedResetsToIdle ==
  last.op = "signal_tts_finished" =>
    current_state = IDLE /\ tts_finished_event

\* The operations that return from inside their `with self.state_lock` block.
ReturnsFromLock ==
  {"request_tts_permission", "request_listening_permission",
   "signal_tts_started", "signal_tts_finished",
   "signal_processing_started", "signal_processing_finished"}

\* ---- C28: when a callback raised during a notification, the transition
\* is committed, every registered callback was invoked, no exception left
\* _notify_state_change, and the lock is free once the operation returned.
C28_RaisingCallbackHarmless ==
  delivered.raised > 0 =>
    /\ current_state = delivered.new
    /\ delivered.invoked = delivered.registered
    /\ ~delivered.propagated
    /\ last.op \in ReturnsFromLock => lock_owner = NoThread

\* signal_processing_started notified two callbacks, the first of which
\* raised.
C28_Witness ==
  /\ last.op = "signal_processing_started"
  /\ Len(state_change_callbacks) = 2
  /\ state_change_callbacks[1] = "raises"
  /\ delivered.raised > 0
  /\ delivered.invoked = 2
  /\ delivered.new = PROCESSING
  /\ current_state = PROCESSING
  /\ lock_owner = NoThread

\* ---- C29: the (old, new) pairs delivered to the callbacks form a chain:
\* a delivery passes the state before the write and the state after it,
\* and once a callback is registered current_state changes in no step but
\* a delivering one, so that each old is the new of the delivery before;
\* and while a thread holds state_lock only that thread writes
\* current_state.
C29_TransitionsChained ==
  [][/\ delivered' # NoDelivery =>
          /\ delivered'.old = current_state
          /\ delivered'.new = current_state'
     /\ current_state' # current_state /\ state_change_callbacks # <<>> =>
          delivered' # NoDelivery
     /\ current_state' # current_state /\ lock_owner # NoThread =>
          pc'[lock_owner] # pc[lock_owner]]_vars

\* A delivery, LISTENING to SPEAKING, made by a thread that still holds the
\* lock while another thread is blocked on it.
C29_Witness ==
  /\ delivered.old = LISTENING
  /\ delivered.new = SPEAKING
  /\ \E t \in Threads : pc[t] = "tts_sleep" /\ lock_owner = t
  /\ \E t \in Threads : pc[t] = "blocked"

\* ---- C30: an exception during category-specific detection is answered
\* with the quick delay and True: a navigation wait whose position query
\* has raised on every call so far lasts no longer than 200 ms; a camera
\* wait whose first position query raised returns True 200 ms after it; a
\* fallback timer that failed on its duration parameter returns True 200 ms
\* after it was reached.
C30_DetectionErrorQuickDelay ==
  /\ cm_pc = "monitor" /\ previous_position = <<>> /\ cm_polls > 0 =>
       cm_time <= 200
  /\ cm_pc = "done" /\ command_type(cm_action) = "camera"
       /\ cm_has_position /\ cm_polls = 1 =>
       cm_ret = "True" /\ cm_time = 500 + 200
  /\ cm_pc = "done" /\ command_type(cm_action) = "navigation"
       /\ cm_params.smooth \in {"absent", "True"}
       /\ cm_params.duration.kind = "text" =>
       cm_ret = "True" /\ cm_time = cm_monitor.at + 200

\* ---- C30, as the code has it: wait_for_completion returns True in every
\* case, but only an exception that leaves the strategy (the fallback timer
\* adding 1.0 to a duration that is not a number) is answered with the
\* 200 ms delay.  A camera wait whose first position query raised sleeps
\* its flat 1.0 s; a navigation wait whose position query has raised on
\* every call so far goes on polling, and ends only in the fallback timer.
C30_DetectionErrorsAbsorbed ==
  /\ [](cm_pc = "done" => cm_ret = "True")
  /\ [](cm_pc = "done" /\ command_type(cm_action) = "camera"
          /\ cm_has_position /\ cm_polls = 1 =>
          cm_time = 500 + 1000)
  /\ [](cm_pc = "done" /\ command_type(cm_action) = "navigation"
          /\ cm_params.smooth \in {"absent", "True"}
          /\ cm_params.duration.kind = "text" =>
          cm_wait = 0 /\ cm_time = cm_monitor.at + 200)
  /\ [][cm_pc = "monitor" /\ previous_position = <<>> /\ cm_polls > 0 =>
          cm_pc' \in {"monitor", "fallback"}]_vars

\* A camera wait whose first position query raised has returned True after
\* 1.5 s.
C30_Witness ==
  /\ cm_pc = "done"
  /\ cm_action = "free_camera"
  /\ cm_has_position
  /\ cm_polls = 1
  /\ cm_time = 1500
  /\ cm_ret = "True"

\* ---- C31: the step that observes the third consecutive stable reading
\* ends the navigation wait with True, whatever the closest-object check
\* meets: no getClosestObjectToCamera, the target, another object, nothing,
\* or an exception.
C31_SecondaryCheckNeverFails ==
  [][cm_pc = "monitor" /\ stable_count' >= 3 =>
       /\ cm_pc' = "done"
       /\ cm_ret' = "True"
       /\ cm_monitor'.result = "True"]_vars

\* getClosestObjectToCamera raised after the third stable reading, and the
\* wait has returned True.
C31_Witness ==
  /\ cm_pc = "done"
  /\ cm_entity = "MARS"
  /\ stable_count >= 3
  /\ cm_closest = "raise"
  /\ cm_ret = "True"

\* ---- C32: process_and_execute_command enters PROCESSING, then EXECUTING
\* with the one executor call of the iteration; when the call ends, by a
\* result or by an exception, the state is IDLE and what is returned is a
\* text (unless the executor itself returned something that is not one);
\* an exception gives a text that starts with the error marker, and the
\* give_feedback that follows speaks an error cue.
C32_ExecuteAlwaysReturns ==
  /\ [][vs_pc = "process" /\ vs_pc' # "process" =>
          vs_state' = VS_PROCESSING /\ vs_pc' = "execute"]_vars
  /\ [][vs_pc = "execute" /\ vs_pc' # "execute" =>
          /\ vs_state' = VS_EXECUTING
          /\ ~vs_executed
          /\ vs_active' = vs_active \cup {"executor"}]_vars
  /\ [][("executor" \in vs_active') # ("executor" \in vs_active) =>
          vs_pc \in {"execute", "executing"}]_vars
  /\ [][vs_pc = "executing" /\ vs_pc' # "executing" =>
          /\ vs_state' = VS_IDLE
          /\ vs_outcome' \in {"return", "raise"}
          /\ vs_result'.kind = "text"
               \/ (vs_outcome' = "return" /\ vs_result' = NotText)
          /\ vs_outcome' = "raise" =>
               vs_result'.kind = "text" /\ vs_result'.marker = "error"]_vars
  /\ [](vs_pc = "feedback_speaking" /\ vs_outcome = "raise" =>
          vs_cue \in {"connection_failed", "navigation_failed", "error"})

\* The executor raised an exception whose message names the navigation,
\* and give_feedback is speaking the navigation_failed cue.
C32_Witness ==
  /\ vs_pc = "feedback_speaking"
  /\ vs_outcome = "raise"
  /\ vs_result = Text("error", {"navigation", "failed"})
  /\ vs_cue = "navigation_failed"

\* ---- C33: give_feedback speaks exactly one cue, by its indicator type and
\* never by the result text, from connection_failed, navigation_failed,
\* error, complete, screenshot_taken and done: a result that starts with the
\* error marker gets one of the three error cues whatever else it contains;
\* otherwise the navigation marker or the word "successfully" gives
\* complete; otherwise the screenshot marker gives screenshot_taken;
\* otherwise done.
C33_FeedbackCue ==
  /\ vs_cues <= 1
  /\ vs_pc \in {"feedback_speaking", "feedback_end"} => vs_cues = 1
  /\ vs_pc = "feedback_speaking" =>
       /\ vs_cue \in {"connection_failed", "navigation_failed", "error",
                       "complete", "screenshot_taken", "done"}
       /\ vs_result.marker = "error" =>
            vs_cue \in {"connection_failed", "navigation_failed", "error"}
       /\ vs_result.marker # "error"
            /\ (vs_result.marker = "plane"
                  \/ "successfully" \in vs_result.words) =>
            vs_cue = "complete"
       /\ vs_result.marker = "camera"
            /\ "successfully" \notin vs_result.words =>
            vs_cue = "screenshot_taken"
       /\ vs_result.marker = "none"
            /\ "successfully" \notin vs_result.words =>
            vs_cue = "done"

\* The executor returned a text that starts with the error marker and
\* contains "successfully": the error cue is being spoken.
C33_Witness ==
  /\ vs_pc = "feedback_speaking"
  /\ vs_outcome = "return"
  /\ vs_result = Text("error", {"successfully"})
  /\ vs_cue = "error"
  /\ vs_cues = 1

\* ---- C34: a speak call that was granted permission, and so every
\* signal_tts_started, is followed by the signal_tts_finished of the same
\* call, also when synthesis or playback fails; and when that call returns
\* the coordinator is not in SPEAKING.
C34_SpeakBracketed ==
  /\ (cpc[Speaker] \in {"S_started", "S_play"}
        ~> last.op = "signal_tts_finished")
  /\ [](last.op = "signal_tts_finished" => current_state # SPEAKING)
  /\ [][cpc[Speaker] \in {"S_play", "S_finished"} /\ cpc'[Speaker] = "S_idle"
          => last'.op = "signal_tts_finished"]_vars

\* The speaker's signal_tts_finished returns while the listener is blocked
\* on state_lock.
C34_Witness ==
  /\ last.op = "signal_tts_finished"
  /\ cpc[Speaker] = "S_idle"
  /\ current_state = IDLE
  /\ pc[Listener] = "blocked"

\* ---- C35: while the speaker is inside its audio work (signal_tts_started
\* has returned, signal_tts_finished has not been called or has not
\* returned), the state is SPEAKING and listening is not allowed.
C35_SpeakSessionIntegrity ==
  cpc[Speaker] \in {"S_play", "S_finished"} =>
    current_state = SPEAKING /\ ~listening_allowed(current_state)

\* ---- C36: a request_listening_permission that found the state SPEAKING
\* returns from its wait on the speaking-finished event (and takes LISTENING)
\* only when the speak session in progress has been finished since it was
\* granted: never while the speaker holds a grant it has not finished, in
\* particular not before the speaker has called signal_tts_started.
C36_NoStaleTakeover ==
  [][last'.op = "request_listening_permission" /\ last'.branch = "finished"
       => cpc[Speaker] \notin {"S_started", "S_play", "S_finished"}]_vars

\* ---- C37: once stop() has been called, at whatever moment relative to
\* run_voice_control_loop (also before its first statement), the loop
\* eventually terminates: it leaves the while loop, or an exception leaves
\* run_voice_control_loop.
C37_StopEndsLoop ==
  (vs_stop.pc # "none") ~> (vs_pc \in {"ended", "raised"})


\* ---- C38: a go_to, land_on or explore whose handler returned an error
\* string leaves last_target as it was before the command, so that the same
\* go_to is not skipped as already at that target when it is repeated.
C38_FailedNavigationKeepsTarget ==
  d_last.action \in {"go_to", "land_on", "explore"} /\ d_last.outcome = "error"
    => last_target = d_last.before


\* ---- C39: a poll that raises changes neither the stable count nor the
\* previous position and costs one poll interval of 200 ms; the count goes
\* back to zero only at a successful reading that moved by 1000 or more;
\* so a below-threshold reading that follows a failed poll with the count
\* at two completes the wait.
C39_FailedPollKeepsCount ==
  /\ [][cm_pc = "monitor" /\ cm_polls' # cm_polls /\ cm_poll' = "raise" =>
          /\ stable_count' = stable_count
          /\ previous_position' = previous_position
          /\ cm_time' = cm_time + 200
          /\ cm_pc' = "monitor"]_vars
  /\ [][cm_pc = "monitor" /\ cm_pc' = "monitor" /\ stable_count' < stable_count =>
          /\ stable_count' = 0
          /\ cm_poll' \in {"position", "after_raise"}
          /\ Movement(previous_position', previous_position) >= 1000]_vars
  /\ [][/\ cm_pc = "monitor" /\ cm_poll = "raise" /\ stable_count = 2
        /\ cm_poll' = "after_raise"
        /\ Movement(cm_recent'[Len(cm_recent')], previous_position) < 1000
        => cm_pc' = "done" /\ cm_ret' = "True" /\ stable_count' = 3]_vars

\* The wait was completed by a reading that came right after a failed poll.
C39_Witness ==
  /\ cm_pc = "done"
  /\ cm_monitor.result = "True"
  /\ cm_poll = "after_raise"
  /\ stable_count = 3


=============================================================================
